---- MODULE Spec2Model ----
(***************************************************************************)
(* Model of the MIR borrow checker's error reporting                       *)
(* (librustc_mir/borrow_check/error_reporting.rs and place_ext.rs).        *)
(*                                                                         *)
(* A place is a base (local, static, promoted) plus a flat sequence of     *)
(* projection elements, as in the source (`place.base`, `place.elems`).    *)
(* Strings are TLA+ strings, built by concatenation exactly where the      *)
(* source calls push_str / format!.  A call of bug!(), unreachable!(), an  *)
(* out-of-range index or an unwrap of None aborts the process: operators   *)
(* return the status "Bug" and the action that called them sets `aborted`. *)
(***************************************************************************)
EXTENDS Integers, Sequences, FiniteSets, TLC

VARIABLES
    moved_error_reported,         \* MirBorrowckCtxt.moved_error_reported: set of root places
    access_place_error_reported,  \* MirBorrowckCtxt.access_place_error_reported: set of <<root place, span>>
    errors_buffer,                \* MirBorrowckCtxt.errors_buffer: sequence of diagnostics
    aborted,                      \* TRUE once a bug!/panic ended the process
    last,                         \* the last report_* call: its arguments and outcome
    origins,                      \* origins[i]: the call that buffered errors_buffer[i]
    place_arg,                    \* input of the place-description functions
    described,                    \* their results for place_arg, once computed
    resolved,                     \* the last call of the span resolver and its result
    successors,                   \* the control-flow graph the flow analysis runs on
    reinit_block,                 \* the block that assigns the moved local again (0: none)
    on_entry,                     \* the flow state at the entry of each block
    worklist,                     \* the blocks whose exit state is still to be propagated
    computed,                     \* the last call of a pure function, its progress and result
    args,                         \* ConvergenceVisitor::args
    arg_flow,                     \* ConvergenceVisitor::arg_flow
    visited,                      \* ConvergenceVisitor::visited
    cursor,                       \* where the traversal of the body stands
    visits                        \* the statements and terminators processed so far

vars == <<moved_error_reported, access_place_error_reported, errors_buffer,
          aborted, last, origins, place_arg, described, resolved,
          successors, reinit_block, on_entry, worklist,
          computed, args, arg_flow, visited, cursor, visits>>

\* ------------------------------------------------------------------ bounds
\* Longest projection sequence of the places drawn as inputs.
MaxProj == 3
\* Largest number of diagnostics buffered in one body's analysis.
MaxErrors == 2

\* ----------------------------------------------------------------- options
None == [some |-> FALSE]
Some(x) == [some |-> TRUE, v |-> x]

\* ------------------------------------------------------------------- types
\* The types of the analysed body (ty::TypeVariants), by name.
\* k: the variant of ty.sty; inner: pointee / element type; names, ftys:
\* field identifiers and field types (freevar names and upvar types for a
\* closure); variants: the variants of an enum.
MkTy(k, inner, names, ftys, variants) ==
    [k |-> k, inner |-> inner, names |-> names, ftys |-> ftys, variants |-> variants]

EVariants ==
    << [names |-> <<"0">>, ftys |-> <<"Tup">>],
       [names |-> <<"p", "q">>, ftys |-> <<"i32", "T">>] >>

TyTable ==
    [n \in {"i32", "S", "T", "E", "Tup", "Pair", "RefT", "RefS", "BoxS", "PtrT", "ArrT",
            "Clos", "RefClos"} |->
        CASE n = "i32"     -> MkTy("TyInt", "", <<>>, <<>>, <<>>)
          [] n = "S"       -> MkTy("TyAdt", "", <<"b", "n">>, <<"T", "i32">>, <<>>)
          [] n = "T"       -> MkTy("TyAdt", "", <<"c">>, <<"i32">>, <<>>)
          [] n = "E"       -> MkTy("TyAdtEnum", "", <<>>, <<>>, EVariants)
          [] n = "Tup"     -> MkTy("TyTuple", "", <<>>, <<"T", "Pair">>, <<>>)
          [] n = "Pair"    -> MkTy("TyTuple", "", <<>>, <<"i32", "i32">>, <<>>)
          [] n = "RefT"    -> MkTy("TyRef", "T", <<>>, <<>>, <<>>)
          [] n = "RefS"    -> MkTy("TyRef", "S", <<>>, <<>>, <<>>)
          [] n = "BoxS"    -> MkTy("TyBox", "S", <<>>, <<>>, <<>>)
          [] n = "PtrT"    -> MkTy("TyRawPtr", "T", <<>>, <<>>, <<>>)
          [] n = "ArrT"    -> MkTy("TyArray", "T", <<>>, <<>>, <<>>)
          [] n = "Clos"    -> MkTy("TyClosure", "", <<"x", "y">>, <<"RefS", "BoxS">>, <<>>)
          [] n = "RefClos" -> MkTy("TyRef", "Clos", <<>>, <<>>, <<>>)]

\* ------------------------------------------------------------- the MIR body
\* mir.local_decls (1-based here).  name: Option<Name>; kind: mir.local_kind.
MkLocal(name, ty, kind, span) == [name |-> name, ty |-> ty, kind |-> kind, span |-> span]

local_decls ==
    << MkLocal(None,      "RefClos", "Arg",  10),   \* the closure environment
       MkLocal(Some("a"), "S",       "Var",  11),
       MkLocal(Some("v"), "ArrT",    "Var",  12),
       MkLocal(Some("i"), "i32",     "Var",  13),
       MkLocal(Some("e"), "E",       "Var",  14),
       MkLocal(None,      "RefT",    "Temp", 15),
       MkLocal(Some("w"), "Tup",     "Var",  16),
       MkLocal(Some("r"), "BoxS",    "Var",  17),
       MkLocal(Some("q"), "PtrT",    "Var",  18),
       MkLocal(None,      "Clos",    "Temp", 19),   \* _10: a closure value
       MkLocal(Some("m"), "RefS",    "Var",  41),   \* _11: let m = &mut a
       MkLocal(None,      "T",       "Temp", 42),   \* _12: a moved value
       MkLocal(Some("p"), "i32",     "Arg",  43) >> \* _13: a named argument

Locals == DOMAIN local_decls

\* LocalDecl::is_user_variable of each local: form is "None" (not a user
\* variable), "Clear" (ClearCrossCrate::Clear), "Var" (BindingForm::Var),
\* "ImplicitSelf" or "RefForGuard"; for a Var, opt_match_place tells whether
\* the binding has an initializer (false for `let PATTERN;`) and by_value
\* whether it binds by value, immutably.
UserVar(form, opt_match_place, by_value) ==
    [form |-> form, opt_match_place |-> opt_match_place, by_value |-> by_value]

is_user_variable ==
    << UserVar("None", FALSE, FALSE),
       UserVar("Var", FALSE, TRUE),         \* let a;
       UserVar("Var", TRUE, TRUE),          \* let v = ...;
       UserVar("Var", FALSE, TRUE),         \* let i;
       UserVar("Var", TRUE, TRUE),
       UserVar("None", FALSE, FALSE),
       UserVar("Clear", FALSE, FALSE),      \* w: from another crate
       UserVar("Var", TRUE, TRUE),
       UserVar("RefForGuard", FALSE, FALSE),
       UserVar("None", FALSE, FALSE),
       UserVar("Var", FALSE, FALSE),        \* let ref m;
       UserVar("None", FALSE, FALSE),
       UserVar("Var", TRUE, TRUE) >>        \* fn f(p: i32)

\* LocalDecl::can_be_made_mutable (librustc/mir): an immutable by-value
\* binding or an implicit self.
can_be_made_mutable(local) ==
    \/ is_user_variable[local].form = "Var" /\ is_user_variable[local].by_value
    \/ is_user_variable[local].form = "ImplicitSelf"

\* mir.upvar_decls (0-based in the source: position k+1 here).
upvar_decls ==
    << [debug_name |-> "x", by_ref |-> TRUE],
       [debug_name |-> "y", by_ref |-> FALSE] >>

\* ------------------------------------------------------------------ places
LocalBase(l) == [kind |-> "Local", local |-> l, name |-> "", ty |-> local_decls[l].ty]
StaticBase(name, ty) == [kind |-> "Static", local |-> 0, name |-> name, ty |-> ty]
PromotedBase(ty) == [kind |-> "Promoted", local |-> 0, name |-> "", ty |-> ty]

Deref == [k |-> "Deref", field |-> 0, ty |-> "", local |-> 0, variant |-> 0]
Field(f, ty) == [k |-> "Field", field |-> f, ty |-> ty, local |-> 0, variant |-> 0]
Index(l) == [k |-> "Index", field |-> 0, ty |-> "", local |-> l, variant |-> 0]
ConstantIndex == [k |-> "ConstantIndex", field |-> 0, ty |-> "", local |-> 0, variant |-> 0]
Subslice == [k |-> "Subslice", field |-> 0, ty |-> "", local |-> 0, variant |-> 0]
\* Downcast(def, variant_index): def names the enum type, variant is 0-based.
Downcast(def, vi) == [k |-> "Downcast", field |-> 0, ty |-> def, local |-> 0, variant |-> vi]

Place(base, elems) == [base |-> base, elems |-> elems]
LocalPlace(l) == Place(LocalBase(l), <<>>)

has_no_projection(place) == place.elems = <<>>

\* place.elem_base(tcx, n): the place made of the base and the first n elems.
elem_base(place, n) == Place(place.base, SubSeq(place.elems, 1, n))

\* Place::ty: the type of a place, following its projections.
RECURSIVE ElemsTy(_, _)
ElemsTy(ty, elems) ==
    IF elems = <<>> THEN ty
    ELSE LET e == Head(elems)
             next == CASE e.k = "Deref" -> TyTable[ty].inner
                       [] e.k = "Field" -> e.ty
                       [] e.k \in {"Index", "ConstantIndex"} -> TyTable[ty].inner
                       [] OTHER -> ty
         IN ElemsTy(next, Tail(elems))

place_ty(place) == ElemsTy(place.base.ty, place.elems)

\* The projections the type checker accepts on a place: the inputs drawn
\* below are well typed (a malformed projection is a precondition violation).
NextElems(place) ==
    LET n == Len(place.elems)
        t == TyTable[place_ty(place)]
        afterDowncast == n > 0 /\ place.elems[n].k = "Downcast"
    IN CASE t.k \in {"TyRef", "TyBox", "TyRawPtr"} -> {Deref}
         [] t.k \in {"TyAdt", "TyTuple", "TyClosure"} ->
                {Field(i - 1, t.ftys[i]) : i \in DOMAIN t.ftys}
         [] t.k = "TyAdtEnum" /\ ~afterDowncast ->
                {Downcast(place_ty(place), i - 1) : i \in DOMAIN t.variants}
         [] t.k = "TyAdtEnum" /\ afterDowncast ->
                LET var == t.variants[place.elems[n].variant + 1]
                IN {Field(i - 1, var.ftys[i]) : i \in DOMAIN var.ftys}
         [] t.k = "TyArray" -> {Index(4), Index(6), ConstantIndex}
         [] OTHER -> {}

RECURSIVE PlacesUpTo(_)
PlacesUpTo(n) ==
    IF n = 0
    THEN {LocalPlace(l) : l \in Locals}
           \cup {Place(StaticBase("G", "S"), <<>>), Place(PromotedBase("Tup"), <<>>)}
    ELSE LET prev == PlacesUpTo(n - 1)
         IN prev \cup UNION {{Place(p.base, Append(p.elems, e)) : e \in NextElems(p)} :
                               p \in {q \in prev : Len(q.elems) = n - 1}}

Places == PlacesUpTo(MaxProj)

\* Statements and terminators.  An rvalue is a use of an operand, a borrow
\* or an aggregate; operands are Move / Copy of a place.
Move(place) == [op |-> "Move", place |-> place]
Copy(place) == [op |-> "Copy", place |-> place]
NoPlace == Place(PromotedBase("i32"), <<>>)
Use(operand) == [k |-> "Use", def |-> "", operands |-> <<operand>>]
Ref(place) == [k |-> "Ref", def |-> "", operands |-> <<Copy(place)>>]
ClosureAggregate(def, operands) == [k |-> "Closure", def |-> def, operands |-> operands]
Assign(place, rvalue, span) == [kind |-> "Assign", place |-> place, rvalue |-> rvalue, span |-> span]
StorageDead(l, span) ==
    [kind |-> "StorageDead", place |-> LocalPlace(l), rvalue |-> Use(Copy(NoPlace)), span |-> span]

a_place == LocalPlace(2)
a_b == Place(LocalBase(2), <<Field(0, "T")>>)
a_n == Place(LocalBase(2), <<Field(1, "i32")>>)
v_place == LocalPlace(3)
v_i == Place(LocalBase(3), <<Index(4)>>)
e_place == LocalPlace(5)
w_0 == Place(LocalBase(7), <<Field(0, "T")>>)

\* mir.basic_blocks: statements and the span of the terminator.
basic_blocks ==
    << [statements |->
          << Assign(LocalPlace(6), Ref(v_i), 20),
             Assign(LocalPlace(10), ClosureAggregate("c1", <<Move(LocalPlace(6)), Move(a_place)>>), 20),
             Assign(LocalPlace(12), Use(Move(a_b)), 24),
             Assign(LocalPlace(6), Ref(a_b), 25),
             Assign(LocalPlace(11), Ref(a_place), 26) >>,
        terminator |-> [span |-> 27]],
       [statements |->
          << Assign(LocalPlace(12), Use(Move(a_b)), 28),
             Assign(LocalPlace(6), Ref(w_0), 29),
             Assign(LocalPlace(10), ClosureAggregate("c2", <<Copy(LocalPlace(6))>>), 29),
             Assign(LocalPlace(6), Ref(w_0), 31),
             Assign(LocalPlace(6), Ref(w_0), 32),
             Assign(LocalPlace(6), Ref(LocalPlace(12)), 34),
             StorageDead(6, 36) >>,
        terminator |-> [span |-> 35]],
       [statements |->
          << Assign(LocalPlace(6), Ref(w_0), 60),
             StorageDead(12, 61),
             Assign(LocalPlace(10), ClosureAggregate("c2", <<Copy(LocalPlace(6))>>), 61),
             Assign(LocalPlace(6), Ref(w_0), 63),
             Assign(LocalPlace(10), ClosureAggregate("c1", <<Move(LocalPlace(12)), Move(a_place)>>), 63),
             Assign(LocalPlace(10), ClosureAggregate("c2", <<Copy(LocalPlace(6))>>), 63) >>,
        terminator |-> [span |-> 64]],
       [statements |->
          << Assign(LocalPlace(6), Ref(a_n), 70),
             Assign(LocalPlace(10), ClosureAggregate("c2", <<Copy(LocalPlace(6))>>), 70),
             Assign(LocalPlace(11), Ref(a_place), 70) >>,
        terminator |-> [span |-> 71]] >>

Location(block, statement_index) == [block |-> block, statement_index |-> statement_index]

\* The closure expressions of the crate (tcx.hir): args_span is the span of
\* the closure's parameter list, freevars the captured variables with the
\* span of their first use in the closure body.
closures ==
    [d \in {"c1", "c2"} |->
        IF d = "c1"
        THEN [local_crate |-> TRUE, args_span |-> 21, freevars |-> <<[span |-> 22], [span |-> 23]>>]
        ELSE [local_crate |-> TRUE, args_span |-> 37, freevars |-> <<[span |-> 38]>>]]

\* statements.get(location.statement_index)
statement_at(location) ==
    LET get(stmts) == IF location.statement_index \in DOMAIN stmts
                      THEN Some(stmts[location.statement_index]) ELSE None
    IN get(basic_blocks[location.block].statements)

\* mir.source_info(location).span
source_info_span(location) ==
    LET span_of(stmt) == IF stmt.some THEN stmt.v.span
                         ELSE basic_blocks[location.block].terminator.span
    IN span_of(statement_at(location))

\* borrow_set: the Borrow Records of the body.
BorrowData(kind, borrowed_place, reserve_location) ==
    [kind |-> kind, borrowed_place |-> borrowed_place, reserve_location |-> reserve_location]

borrow_set ==
    << BorrowData("Mut", v_i, Location(1, 1)),
       BorrowData("Mut", a_b, Location(1, 4)),
       BorrowData("Mut", a_place, Location(1, 5)),
       BorrowData("Shared", w_0, Location(2, 2)),
       BorrowData("Unique", w_0, Location(2, 4)),
       BorrowData("Mut", w_0, Location(2, 5)),
       BorrowData("Shared", LocalPlace(12), Location(2, 6)),
       BorrowData("Mut", a_n, Location(4, 1)),
       BorrowData("Mut", a_place, Location(4, 3)) >>

\* move_data: move paths, move-outs and the move-outs of each path.
move_paths == << [place |-> a_place], [place |-> a_b], [place |-> v_place] >>

moves ==
    << [path |-> 1, source |-> Location(1, 2)],
       [path |-> 2, source |-> Location(1, 3)],
       [path |-> 3, source |-> Location(1, 6)],
       [path |-> 2, source |-> Location(2, 1)] >>

path_map == [mpi \in DOMAIN move_paths |->
                SelectSeq([i \in DOMAIN moves |-> i], LAMBDA moi : moves[moi].path = mpi)]

\* ------------------------------------------------------ place descriptions
\* Result of the string builders: st is "Ok", "Err" (Result::Err(())) or
\* "Bug" (bug!(), an index out of range: the process aborts); s is the text.
Ok(s) == [st |-> "Ok", s |-> s]
Err == [st |-> "Err", s |-> ""]
Bug == [st |-> "Bug", s |-> ""]

\* End-user visible description of the `field`nth field of `ty`.
RECURSIVE describe_field_from_ty(_, _)
describe_field_from_ty(ty, field) ==
    LET t == TyTable[ty]
    IN IF t.k = "TyBox" THEN describe_field_from_ty(t.inner, field)
       ELSE CASE t.k = "TyAdtEnum" -> Ok(ToString(field))
              [] t.k = "TyAdt" ->
                     IF field + 1 \in DOMAIN t.names THEN Ok(t.names[field + 1]) ELSE Bug
              [] t.k = "TyTuple" -> Ok(ToString(field))
              [] t.k \in {"TyRef", "TyRawPtr"} -> describe_field_from_ty(t.inner, field)
              [] t.k \in {"TyArray", "TySlice"} -> describe_field_from_ty(t.inner, field)
              [] t.k = "TyClosure" ->
                     IF field + 1 \in DOMAIN t.names THEN Ok(t.names[field + 1]) ELSE Bug
              [] OTHER -> Bug

\* The loop of describe_field over place.elems: every Downcast and Field
\* element of the place pushes a string for `field`, the others `continue`.
RECURSIVE describe_field_elems(_, _, _)
describe_field_elems(elems, field, acc) ==
    IF acc.st # "Ok" \/ elems = <<>> THEN acc
    ELSE LET variant_field(fields) ==
                 IF field + 1 \in DOMAIN fields THEN Ok(fields[field + 1]) ELSE Bug
             proj_str(elem) ==
                 CASE elem.k = "Downcast" ->
                          variant_field(TyTable[elem.ty].variants[elem.variant + 1].names)
                   [] elem.k = "Field" -> describe_field_from_ty(elem.ty, field)
                   [] OTHER -> Ok("")
             push(str) == IF str.st = "Ok" THEN Ok(acc.s \o str.s) ELSE str
         IN describe_field_elems(Tail(elems), field, push(proj_str(Head(elems))))

\* End-user visible description of the `field`nth field of `base`.
describe_field(place, field) ==
    describe_field_elems(place.elems, field, describe_field_from_ty(place.base.ty, field))

\* Place::is_upvar_field_projection (librustc/mir): Some(field) when the
\* place, with a trailing dereference removed, ends in a field of a value
\* of closure type.
is_upvar_field_projection(place) ==
    LET n == Len(place.elems)
        m == IF n > 0 /\ place.elems[n].k = "Deref" THEN n - 1 ELSE n
    IN IF m > 0 /\ place.elems[m].k = "Field"
          /\ TyTable[place_ty(elem_base(place, m - 1))].k = "TyClosure"
       THEN Some(place.elems[m].field)
       ELSE None

\* Appends the name of `local` to buf; Err when the local has no name.
append_local_to_string(local_index, buf) ==
    LET local == local_decls[local_index]
    IN IF local.name.some THEN Ok(buf \o local.name.v) ELSE Err

append_place_base_to_string(base, buf) ==
    CASE base.kind = "Promoted" -> Ok(buf \o "promoted")
      [] base.kind = "Local" -> append_local_to_string(base.local, buf)
      [] base.kind = "Static" -> Ok(buf \o base.name)

\* The name pushed for an upvar field; upvar_decls[var_index] panics when
\* var_index is out of range.
UpvarName(field, deref) ==
    IF field + 1 \notin DOMAIN upvar_decls THEN Bug
    ELSE LET decl == upvar_decls[field + 1]
         IN IF deref /\ ~decl.by_ref THEN Ok("*" \o decl.debug_name)
            ELSE Ok(decl.debug_name)

append_place_projection_to_string(place, projection, buf, including_downcast) ==
    LET push(r) == IF r.st = "Ok" THEN Ok(buf \o r.s) ELSE r
        field(field_name) ==
            IF field_name.st = "Ok" THEN Ok(buf \o "." \o field_name.s) ELSE field_name
        index(named) ==
            IF named.st = "Ok" THEN Ok(named.s \o "]") ELSE Ok(buf \o "[" \o ".." \o "]")
        append(upvar_field_projection) ==
            CASE projection.k = "Deref" ->
                     IF upvar_field_projection.some
                     THEN push(UpvarName(upvar_field_projection.v, TRUE))
                     ELSE Ok(buf \o "*")
              [] projection.k = "Downcast" ->
                     IF including_downcast THEN Err ELSE Ok(buf)
              [] projection.k = "Field" ->
                     IF upvar_field_projection.some
                     THEN push(UpvarName(upvar_field_projection.v, FALSE))
                     ELSE field(describe_field(place, projection.field))
              [] projection.k = "Index" ->
                     index(append_local_to_string(projection.local, buf \o "["))
              [] projection.k \in {"ConstantIndex", "Subslice"} -> Ok(buf \o "[..]")
    IN append(is_upvar_field_projection(place))

RECURSIVE append_elems_to_string(_, _, _, _)
append_elems_to_string(place, elems, acc, including_downcast) ==
    IF acc.st # "Ok" \/ elems = <<>> THEN acc
    ELSE append_elems_to_string(place, Tail(elems),
             append_place_projection_to_string(place, Head(elems), acc.s, including_downcast),
             including_downcast)

\* Appends end-user visible description of `place` to `buf`.
append_place_to_string(place, buf, including_downcast) ==
    append_elems_to_string(place, place.elems,
        append_place_base_to_string(place.base, buf), including_downcast)

\* Some(description), None, or an abort of the process ("Bug").
DescOk(s) == [tag |-> "Some", s |-> s]
DescNone == [tag |-> "None", s |-> ""]
DescBug == [tag |-> "Bug", s |-> ""]

describe_place_with_options(place, including_downcast) ==
    LET described_as(r) ==
            CASE r.st = "Ok" -> DescOk(r.s)
              [] r.st = "Err" -> DescNone
              [] OTHER -> DescBug
    IN described_as(append_place_to_string(place, "", including_downcast))

describe_place(place) == describe_place_with_options(place, FALSE)

\* ------------------------------------------ specification of the describers
NotDescribed == [done |-> FALSE, incl |-> FALSE, res |-> DescNone]

\* A report_* call: the function, the place and the span it reports about
\* (for a borrow: the borrowed place and the blame span), the move-outs
\* that reach it, the new and the issued borrow (indices of borrow_set, 0
\* when the call has none).
Call(fn, place, span, mois, gen, issued) ==
    [fn |-> fn, place |-> place, span |-> span, mois |-> mois, gen |-> gen,
     issued |-> issued, outcome |-> ""]
NoCall == Call("none", Place(PromotedBase("i32"), <<>>), 0, <<>>, 0, 0)

\* No call of move_spans / borrow_spans / retrieve_borrow_spans made yet.
NotResolved == [fn |-> "none"]

\* The flow analysis: its variables and the state in which it is not run.
FlowVars == <<successors, reinit_block, on_entry, worklist>>

FlowIdle ==
    /\ successors = [b \in DOMAIN basic_blocks |-> {}]
    /\ reinit_block = 0
    /\ on_entry = [b \in DOMAIN basic_blocks |-> {}]
    /\ worklist = {}

\* No pure function called yet; the convergence pass not run.
NotComputed == [fn |-> "none"]

PassVars == <<args, arg_flow, visited, cursor, visits>>

PassIdle ==
    /\ args = <<>>
    /\ arg_flow = <<>>
    /\ visited = {}
    /\ cursor = [at |-> "idle"]
    /\ visits = <<>>

InitReports ==
    /\ resolved = NotResolved
    /\ moved_error_reported = {}
    /\ access_place_error_reported = {}
    /\ errors_buffer = <<>>
    /\ aborted = FALSE
    /\ last = NoCall
    /\ origins = <<>>

InitCtxt ==
    /\ FlowIdle
    /\ computed = NotComputed
    /\ PassIdle
    /\ resolved = NotResolved
    /\ moved_error_reported = {}
    /\ access_place_error_reported = {}
    /\ errors_buffer = <<>>
    /\ aborted = FALSE
    /\ last = NoCall
    /\ origins = <<>>

InitDescribe ==
    /\ InitCtxt
    /\ place_arg \in Places
    /\ described = NotDescribed

CtxtUnchanged ==
    UNCHANGED <<moved_error_reported, access_place_error_reported, errors_buffer,
                aborted, last, origins, resolved, FlowVars, computed, PassVars>>

DescribePlace ==
    /\ ~described.done
    /\ described' = [done |-> TRUE, incl |-> FALSE, res |-> describe_place(place_arg)]
    /\ UNCHANGED place_arg
    /\ CtxtUnchanged

DescribePlaceWithOptions ==
    /\ ~described.done
    /\ described' = [done |-> TRUE, incl |-> TRUE,
                     res |-> describe_place_with_options(place_arg, TRUE)]
    /\ UNCHANGED place_arg
    /\ CtxtUnchanged

NextDescribe == DescribePlace \/ DescribePlaceWithOptions

SpecDescribe == InitDescribe /\ [][NextDescribe]_vars

\* ---------------------------------------------------------------- UseSpans
\* ClosureUse { args_span, var_span } or OtherUse(span).
ClosureUse(args_span, var_span) == [closure |-> TRUE, args_span |-> args_span, var_span |-> var_span]
OtherUse(span) == [closure |-> FALSE, args_span |-> span, var_span |-> span]

args_or_use(us) == us.args_span
var_or_use(us) == us.var_span
for_closure(us) == us.closure

\* Add a span label to the arguments of the closure, if it exists.
args_span_label(us, labels, message) ==
    IF us.closure THEN Append(labels, <<us.args_span, message>>) ELSE labels

\* Add a span label to the use of the captured variable, if it exists.
var_span_label(us, labels, message) ==
    IF us.closure THEN Append(labels, <<us.var_span, message>>) ELSE labels

\* freevars.iter().zip(places): the span of the first captured variable
\* whose operand is a Copy or Move of a place in `matching`.
RECURSIVE FirstCapture(_, _, _, _)
FirstCapture(freevars, operands, i, matching) ==
    IF i > Len(freevars) \/ i > Len(operands) THEN None
    ELSE IF operands[i].op \in {"Copy", "Move"} /\ operands[i].place \in matching
         THEN Some(freevars[i].span)
         ELSE FirstCapture(freevars, operands, i + 1, matching)

\* move_spans looking only at the operands that move the place.
move_spans_by_move_only(moved_place, location) ==
    LET moving(operands) ==
            [i \in DOMAIN operands |->
                IF operands[i].op = "Move" THEN operands[i]
                ELSE [op |-> "Constant", place |-> operands[i].place]]
        captured(cl, var_span, stmt) ==
            IF var_span.some THEN ClosureUse(cl.args_span, var_span.v)
            ELSE OtherUse(stmt.span)
        spans_of(stmt) ==
            IF ~stmt.some THEN OtherUse(source_info_span(location))
            ELSE IF stmt.v.kind = "Assign" /\ stmt.v.rvalue.k = "Closure"
                      /\ closures[stmt.v.rvalue.def].local_crate
                 THEN captured(closures[stmt.v.rvalue.def],
                               FirstCapture(closures[stmt.v.rvalue.def].freevars,
                                            moving(stmt.v.rvalue.operands), 1, {moved_place}),
                               stmt.v)
                 ELSE OtherUse(stmt.v.span)
    IN spans_of(statement_at(location))

\* Finds the spans associated to a move or copy of moved_place at location.
move_spans(moved_place, location) ==
    LET captured(cl, var_span, stmt) ==
            IF var_span.some THEN ClosureUse(cl.args_span, var_span.v)
            ELSE OtherUse(stmt.span)
        spans_of(stmt) ==
            IF ~stmt.some THEN OtherUse(source_info_span(location))
            ELSE IF stmt.v.kind = "Assign" /\ stmt.v.rvalue.k = "Closure"
                      /\ closures[stmt.v.rvalue.def].local_crate
                 THEN captured(closures[stmt.v.rvalue.def],
                               FirstCapture(closures[stmt.v.rvalue.def].freevars,
                                            stmt.v.rvalue.operands, 1, {moved_place}),
                               stmt.v)
                 ELSE OtherUse(stmt.v.span)
    IN spans_of(statement_at(location))

\* borrow_spans_scan going on past a statement that has another span.
RECURSIVE borrow_spans_scan_whole_block(_, _, _, _)
borrow_spans_scan_whole_block(stmts, i, local, use_span) ==
    LET captured(cl, var_span) ==
            IF cl.local_crate /\ var_span.some
            THEN ClosureUse(cl.args_span, var_span.v)
            ELSE OtherUse(use_span)
    IN IF i > Len(stmts) THEN OtherUse(use_span)
       ELSE IF stmts[i].kind = "Assign" /\ stmts[i].rvalue.k = "Closure"
            THEN captured(closures[stmts[i].rvalue.def],
                          FirstCapture(closures[stmts[i].rvalue.def].freevars,
                                       stmts[i].rvalue.operands, 1,
                                       {Place(LocalBase(local), <<>>)}))
            ELSE borrow_spans_scan_whole_block(stmts, i + 1, local, use_span)

\* The loop of borrow_spans over the statements after `location`.
RECURSIVE borrow_spans_scan(_, _, _, _)
borrow_spans_scan(stmts, i, local, use_span) ==
    LET captured(cl, var_span) ==
            IF cl.local_crate /\ var_span.some
            THEN ClosureUse(cl.args_span, var_span.v)
            ELSE OtherUse(use_span)
    IN IF i > Len(stmts) THEN OtherUse(use_span)
       ELSE IF stmts[i].kind = "Assign" /\ stmts[i].rvalue.k = "Closure"
            THEN captured(closures[stmts[i].rvalue.def],
                          FirstCapture(closures[stmts[i].rvalue.def].freevars,
                                       stmts[i].rvalue.operands, 1,
                                       {Place(LocalBase(local), <<>>)}))
            ELSE IF use_span # stmts[i].span THEN OtherUse(use_span)
                 ELSE borrow_spans_scan(stmts, i + 1, local, use_span)

\* Finds the span of arguments of a closure and its usage of the local
\* assigned at `location`, searching the statements succeeding `location`.
borrow_spans(use_span, location) ==
    LET spans_of(stmt) ==
            IF ~(stmt.some /\ stmt.v.kind = "Assign" /\ stmt.v.place.base.kind = "Local")
            THEN OtherUse(use_span)
            ELSE IF local_decls[stmt.v.place.base.local].kind # "Temp" THEN OtherUse(use_span)
                 ELSE borrow_spans_scan(basic_blocks[location.block].statements,
                                        location.statement_index + 1,
                                        stmt.v.place.base.local, use_span)
    IN spans_of(statement_at(location))

\* Helper to retrieve span(s) of given borrow from the current MIR.
retrieve_borrow_spans(borrow) ==
    borrow_spans(source_info_span(borrow.reserve_location), borrow.reserve_location)

\* UseSpans::or_else
or_else(us, if_other) == IF us.closure THEN us ELSE if_other

\* Retrieve type of a place for the current MIR representation.
retrieve_type_for_place(place) ==
    IF place.elems = <<>> THEN Some(place.base.ty)
    ELSE LET projection == place.elems[Len(place.elems)]
         IN IF projection.k = "Field" THEN Some(projection.ty) ELSE None

\* ------------------------------------------- specification of the resolver
\* The locations of the body: every statement and the terminator of every
\* block (statement_index one past the last statement).
Locations ==
    UNION { { Location(bb, i) : i \in 1..(Len(basic_blocks[bb].statements) + 1) }
            : bb \in DOMAIN basic_blocks }

\* The places asked about: captured, moved, borrowed and unrelated ones.
SpanPlaces == { LocalPlace(6), LocalPlace(12), a_place, a_b, v_place, w_0 }

\* The spans of the statements and terminators of the body.
UseSpanArgs == { source_info_span(location) : location \in Locations }

InitSpans ==
    /\ InitCtxt
    /\ place_arg \in SpanPlaces
    /\ described = NotDescribed

\* The three functions take &self: they only compute a result.
SpansFrame ==
    UNCHANGED <<moved_error_reported, access_place_error_reported, errors_buffer,
                aborted, last, origins, place_arg, described, FlowVars,
                computed, PassVars>>

MoveSpans ==
    /\ \E location \in Locations :
          resolved' = [fn |-> "move_spans", place |-> place_arg, location |-> location,
                       res |-> move_spans(place_arg, location)]
    /\ SpansFrame

BorrowSpans ==
    /\ \E use_span \in UseSpanArgs, location \in Locations :
          resolved' = [fn |-> "borrow_spans", use_span |-> use_span, location |-> location,
                       res |-> borrow_spans(use_span, location)]
    /\ SpansFrame

RetrieveBorrowSpans ==
    /\ \E b \in DOMAIN borrow_set :
          resolved' = [fn |-> "retrieve_borrow_spans", borrow |-> b,
                       res |-> retrieve_borrow_spans(borrow_set[b])]
    /\ SpansFrame

NextSpans == MoveSpans \/ BorrowSpans \/ RetrieveBorrowSpans

SpecSpans == InitSpans /\ [][NextSpans]_vars

\* ------------------------------------------------------------- diagnostics
\* A buffered diagnostic: the BorrowckErrors constructor that built it, its
\* primary span, the strings and the other spans passed to the constructor,
\* the span labels and the notes, in the order they were added.
Diag(ctor, span, strs, spans, labels, notes) ==
    [ctor |-> ctor, span |-> span, strs |-> strs, spans |-> spans,
     labels |-> labels, notes |-> notes]

NoDiag == Diag("", 0, <<>>, <<>>, <<>>, <<>>)

\* Option<String>::unwrap_or(default) and the quoted name / "value" message.
\* The backquotes of the messages are written ' here (a TLA+ string cannot
\* hold a backquote).
unwrap_or(d, default) == IF d.tag = "Some" THEN d.s ELSE default
quoted(name) == "'" \o name \o "'"
quoted_or_value(d) == IF d.tag = "Some" THEN quoted(d.s) ELSE "value"

\* InitializationRequiringAction: as_noun / as_verb_in_past_tense.
ActionUse == [noun |-> "use", verb |-> "used"]
ActionBorrow == [noun |-> "borrow", verb |-> "borrowed"]

\* The outcome of a report_* call: "buffered" (err.buffer reached),
\* "suppressed" (early return) or "aborted" (bug!, unreachable!, panic).
Buffered(err) == [outcome |-> "buffered", err |-> err]
Suppressed == [outcome |-> "suppressed", err |-> NoDiag]
Aborted == [outcome |-> "aborted", err |-> NoDiag]


\* --------------------------------------- report_use_of_moved_or_uninitialized
\* moved_labels comparing the span of the use with the span of the moving
\* statement instead of the span move_spans resolves (the closure's
\* parameter list for a move into a closure).
RECURSIVE moved_labels_statement_span(_, _, _)
moved_labels_statement_span(span, mois, acc) ==
    LET label(mspans, move_span, move_msg, same_span) ==
            IF same_span
            THEN [labels |-> Append(acc.labels,
                      <<span, "value moved" \o move_msg \o " here in previous iteration of loop">>),
                  is_loop_move |-> TRUE]
            ELSE [labels |-> var_span_label(mspans,
                      Append(acc.labels, <<move_span, "value moved" \o move_msg \o " here">>),
                      "variable moved due to use in closure"),
                  is_loop_move |-> acc.is_loop_move]
        labelled(move_out, mspans) ==
            label(mspans, args_or_use(mspans),
                  IF for_closure(mspans) THEN " into closure" ELSE "",
                  span = source_info_span(move_out.source))
        visit(move_out) ==
            labelled(move_out, move_spans(move_paths[move_out.path].place, move_out.source))
    IN IF mois = <<>> THEN acc
       ELSE moved_labels_statement_span(span, Tail(mois), visit(moves[Head(mois)]))

\* The loop over the reaching move-outs (lines 94-118): acc holds the labels
\* added so far and is_loop_move.
RECURSIVE moved_labels(_, _, _)
moved_labels(span, mois, acc) ==
    LET label(mspans, move_span, move_msg, same_span) ==
            IF same_span
            THEN [labels |-> Append(acc.labels,
                      <<span, "value moved" \o move_msg \o " here in previous iteration of loop">>),
                  is_loop_move |-> TRUE]
            ELSE [labels |-> var_span_label(mspans,
                      Append(acc.labels, <<move_span, "value moved" \o move_msg \o " here">>),
                      "variable moved due to use in closure"),
                  is_loop_move |-> acc.is_loop_move]
        labelled(move_out, mspans) ==
            label(mspans, args_or_use(mspans),
                  IF for_closure(mspans) THEN " into closure" ELSE "",
                  span = args_or_use(mspans))
        visit(move_out) ==
            labelled(move_out, move_spans(move_paths[move_out.path].place, move_out.source))
    IN IF mois = <<>> THEN acc
       ELSE moved_labels(span, Tail(mois), visit(moves[Head(mois)]))

\* typeck tables: the closure types whose kind has a recorded origin.
closure_kind_origins == {"Clos"}

\* moved_note attaching the note only to closures without a kind origin.
moved_note_for_closures_only(place, mois) ==
    LET needs_note(ty) ==
            ty.some /\ TyTable[ty.v].k = "TyClosure" /\ ty.v \notin closure_kind_origins
        note(ty0, d) ==
            IF ~ty0.some THEN [st |-> "Ok", notes |-> <<>>]
            ELSE IF d.tag = "Bug" THEN [st |-> "Bug", notes |-> <<>>]
            ELSE [st |-> "Ok",
                  notes |-> << "move occurs because " \o quoted_or_value(d) \o " has type '"
                               \o ty0.v \o "', which does not implement the 'Copy' trait" >>]
        note_on(place0) ==
            note(retrieve_type_for_place(place0), describe_place_with_options(place0, TRUE))
    IN IF ~needs_note(retrieve_type_for_place(place)) THEN [st |-> "Ok", notes |-> <<>>]
       ELSE note_on(move_paths[moves[mois[1]].path].place)

\* Lines 135-169: the note on the type of the moved place.
moved_note(place, mois) ==
    LET needs_note(ty) ==
            ty.some /\ ~(TyTable[ty.v].k = "TyClosure" /\ ty.v \in closure_kind_origins)
        note(ty0, d) ==
            IF ~ty0.some THEN [st |-> "Ok", notes |-> <<>>]
            ELSE IF d.tag = "Bug" THEN [st |-> "Bug", notes |-> <<>>]
            ELSE [st |-> "Ok",
                  notes |-> << "move occurs because " \o quoted_or_value(d) \o " has type '"
                               \o ty0.v \o "', which does not implement the 'Copy' trait" >>]
        note_on(place0) ==
            note(retrieve_type_for_place(place0), describe_place_with_options(place0, TRUE))
    IN IF ~needs_note(retrieve_type_for_place(place)) THEN [st |-> "Ok", notes |-> <<>>]
       ELSE note_on(move_paths[moves[mois[1]].path].place)

\* The uninitialized-use error never suppressed.
uninitialized_suppressed_never(root_place, reported) == FALSE

\* Lines 50-61: the one-shot suppression of the uninitialized-use error.
uninitialized_suppressed(root_place, reported) ==
    root_place \in reported

\* The whole function: the outcome and the new moved_error_reported.
report_use_of_moved_or_uninitialized(loc, desired_action, place, span0, mpi, curr_move_out, reported) ==
    LET closure_msg == desired_action.noun \o " occurs due to use in closure"
        uninitialized(use_spans, span, d, root_place) ==
            IF uninitialized_suppressed(root_place, reported)
            THEN [res |-> Suppressed, reported |-> reported, span |-> span, mois |-> <<>>]
            ELSE [res |-> IF d.tag = "Bug" THEN Aborted
                          ELSE Buffered(Diag("cannot_act_on_uninitialized_variable", span,
                                   <<desired_action.noun, unwrap_or(d, "_")>>, <<>>,
                                   var_span_label(use_spans,
                                       <<<<span, "use of possibly uninitialized "
                                                 \o quoted_or_value(d)>>>>,
                                       closure_msg),
                                   <<>>)),
                  reported |-> reported \cup {root_place}, span |-> span, mois |-> <<>>]
        after_move(span, with_use, is_loop_move) ==
            IF ~is_loop_move
            THEN Append(with_use, <<span, "value " \o desired_action.verb \o " here after move">>)
            ELSE with_use
        moved_value(use_spans, span, d, mois, moved, note) ==
            [res |-> IF d.tag = "Bug" \/ note.st = "Bug" THEN Aborted
                     ELSE Buffered(Diag("cannot_act_on_moved_value", span,
                              <<desired_action.noun, "", unwrap_or(d, "")>>, <<>>,
                              after_move(span, var_span_label(use_spans, moved.labels, closure_msg),
                                         moved.is_loop_move),
                              note.notes)),
             reported |-> reported, span |-> span, mois |-> mois]
        report(use_spans, span, d, mois) ==
            IF mois = <<>>
            THEN uninitialized(use_spans, span, d, elem_base(place, 0))
            ELSE moved_value(use_spans, span, d, mois,
                     moved_labels(span, mois, [labels |-> <<>>, is_loop_move |-> FALSE]),
                     moved_note(place, mois))
        with_spans(use_spans) ==
            report(use_spans, args_or_use(use_spans), describe_place_with_options(place, TRUE),
                   SelectSeq(path_map[mpi], LAMBDA moi : moi \in curr_move_out))
    IN with_spans(or_else(move_spans(place, loc), borrow_spans(span0, loc)))

\* The uses of the body that the move checker visits: location, place and
\* span of the use, the closest move path, the action that needs the value.
UseSite(loc, place, span, mpi, action) ==
    [loc |-> loc, place |-> place, span |-> span, mpi |-> mpi, action |-> action]

UseSites ==
    { UseSite(Location(1, 2), a_place, 20, 1, ActionUse),
      UseSite(Location(1, 3), a_b, 24, 2, ActionUse),
      UseSite(Location(1, 5), a_place, 26, 1, ActionBorrow),
      UseSite(Location(1, 6), v_place, 27, 3, ActionUse),
      UseSite(Location(2, 1), a_b, 28, 2, ActionUse),
      UseSite(Location(2, 1), a_n, 28, 1, ActionUse) }

\* err.buffer(&mut self.errors_buffer), or the early return, or the abort.
Finish(res, call) ==
    /\ res.outcome = "buffered" => Len(errors_buffer) < MaxErrors
    /\ errors_buffer' = IF res.outcome = "buffered" THEN Append(errors_buffer, res.err)
                        ELSE errors_buffer
    /\ origins' = IF res.outcome = "buffered" THEN Append(origins, call) ELSE origins
    /\ aborted' = (res.outcome = "aborted")
    /\ last' = [call EXCEPT !.outcome = res.outcome]
    /\ UNCHANGED <<place_arg, described, resolved, FlowVars, computed, PassVars>>

ReportUseOfMovedOrUninitialized ==
    /\ ~aborted
    /\ \E u \in UseSites, curr_move_out \in SUBSET (DOMAIN moves) :
         \E r \in {report_use_of_moved_or_uninitialized(u.loc, u.action, u.place, u.span,
                       u.mpi, curr_move_out, moved_error_reported)} :
            /\ moved_error_reported' = r.reported
            /\ Finish(r.res, Call("report_use_of_moved_or_uninitialized", u.place, r.span,
                                  r.mois, 0, 0))
            /\ UNCHANGED access_place_error_reported

\* ------------------------------------------------ report_conflicting_borrow
BorrowKinds == {"Shared", "Unique", "Mut"}

\* conflict_error with the Mut-against-Shared pair falling into the
\* Mut-against-Mut arm.
conflict_error_mut_shared_as_multiply(gen_borrow_kind, issued_kind) ==
    CASE gen_borrow_kind = "Shared" /\ issued_kind = "Mut" ->
             [ctor |-> "cannot_reborrow_already_borrowed",
              strs |-> <<"", "immutable", "it", "mutable", "">>]
      [] gen_borrow_kind = "Mut" /\ issued_kind \in {"Mut", "Shared"} ->
             [ctor |-> "cannot_mutably_borrow_multiply", strs |-> <<"", "">>]
      [] gen_borrow_kind = "Unique" /\ issued_kind = "Unique" ->
             [ctor |-> "cannot_uniquely_borrow_by_two_closures", strs |-> <<>>]
      [] gen_borrow_kind = "Unique" /\ issued_kind # "Unique" ->
             [ctor |-> "cannot_uniquely_borrow_by_one_closure", strs |-> <<"", "it", "">>]
      [] gen_borrow_kind = "Shared" /\ issued_kind = "Unique" ->
             [ctor |-> "cannot_reborrow_already_uniquely_borrowed",
              strs |-> <<"", "immutable", "">>]
      [] gen_borrow_kind = "Mut" /\ issued_kind = "Unique" ->
             [ctor |-> "cannot_reborrow_already_uniquely_borrowed",
              strs |-> <<"", "mutable", "">>]
      [] gen_borrow_kind = "Shared" /\ issued_kind = "Shared" ->
             [ctor |-> "unreachable", strs |-> <<>>]

\* conflict_error with the second alternative of the first arm matching
\* every issued kind but Unique: Mut against Mut is taken for a reborrow.
conflict_error_mut_mut_as_reborrow(gen_borrow_kind, issued_kind) ==
    CASE gen_borrow_kind = "Shared" /\ issued_kind = "Mut" ->
             [ctor |-> "cannot_reborrow_already_borrowed",
              strs |-> <<"", "immutable", "it", "mutable", "">>]
      [] gen_borrow_kind = "Mut" /\ issued_kind \in {"Shared", "Mut"} ->
             [ctor |-> "cannot_reborrow_already_borrowed",
              strs |-> <<"", "mutable", "it", "immutable", "">>]
      [] gen_borrow_kind = "Unique" /\ issued_kind = "Unique" ->
             [ctor |-> "cannot_uniquely_borrow_by_two_closures", strs |-> <<>>]
      [] gen_borrow_kind = "Unique" /\ issued_kind # "Unique" ->
             [ctor |-> "cannot_uniquely_borrow_by_one_closure", strs |-> <<"", "it", "">>]
      [] gen_borrow_kind = "Shared" /\ issued_kind = "Unique" ->
             [ctor |-> "cannot_reborrow_already_uniquely_borrowed",
              strs |-> <<"", "immutable", "">>]
      [] gen_borrow_kind = "Mut" /\ issued_kind = "Unique" ->
             [ctor |-> "cannot_reborrow_already_uniquely_borrowed",
              strs |-> <<"", "mutable", "">>]
      [] gen_borrow_kind = "Shared" /\ issued_kind = "Shared" ->
             [ctor |-> "unreachable", strs |-> <<>>]

\* conflict_error without the (Shared, Unique) arm: the pair falls through
\* to the last arm, written (Shared, _) => unreachable!().
conflict_error_shared_unique_unreachable(gen_borrow_kind, issued_kind) ==
    CASE gen_borrow_kind = "Shared" /\ issued_kind = "Mut" ->
             [ctor |-> "cannot_reborrow_already_borrowed",
              strs |-> <<"", "immutable", "it", "mutable", "">>]
      [] gen_borrow_kind = "Mut" /\ issued_kind = "Shared" ->
             [ctor |-> "cannot_reborrow_already_borrowed",
              strs |-> <<"", "mutable", "it", "immutable", "">>]
      [] gen_borrow_kind = "Mut" /\ issued_kind = "Mut" ->
             [ctor |-> "cannot_mutably_borrow_multiply", strs |-> <<"", "">>]
      [] gen_borrow_kind = "Unique" /\ issued_kind = "Unique" ->
             [ctor |-> "cannot_uniquely_borrow_by_two_closures", strs |-> <<>>]
      [] gen_borrow_kind = "Unique" /\ issued_kind # "Unique" ->
             [ctor |-> "cannot_uniquely_borrow_by_one_closure", strs |-> <<"", "it", "">>]
      [] gen_borrow_kind = "Mut" /\ issued_kind = "Unique" ->
             [ctor |-> "cannot_reborrow_already_uniquely_borrowed",
              strs |-> <<"", "mutable", "">>]
      [] gen_borrow_kind = "Shared" /\ issued_kind \in {"Shared", "Unique"} ->
             [ctor |-> "unreachable", strs |-> <<>>]

\* The match on (gen_borrow_kind, issued_borrow.kind), lines 267-346: the
\* BorrowckErrors constructor selected and the strings passed to it after
\* the description of the place ("unreachable" for the unreachable!() arm).
conflict_error(gen_borrow_kind, issued_kind) ==
    CASE gen_borrow_kind = "Shared" /\ issued_kind = "Mut" ->
             [ctor |-> "cannot_reborrow_already_borrowed",
              strs |-> <<"", "immutable", "it", "mutable", "">>]
      [] gen_borrow_kind = "Mut" /\ issued_kind = "Shared" ->
             [ctor |-> "cannot_reborrow_already_borrowed",
              strs |-> <<"", "mutable", "it", "immutable", "">>]
      [] gen_borrow_kind = "Mut" /\ issued_kind = "Mut" ->
             [ctor |-> "cannot_mutably_borrow_multiply", strs |-> <<"", "">>]
      [] gen_borrow_kind = "Unique" /\ issued_kind = "Unique" ->
             [ctor |-> "cannot_uniquely_borrow_by_two_closures", strs |-> <<>>]
      [] gen_borrow_kind = "Unique" /\ issued_kind # "Unique" ->
             [ctor |-> "cannot_uniquely_borrow_by_one_closure", strs |-> <<"", "it", "">>]
      [] gen_borrow_kind = "Shared" /\ issued_kind = "Unique" ->
             [ctor |-> "cannot_reborrow_already_uniquely_borrowed",
              strs |-> <<"", "immutable", "">>]
      [] gen_borrow_kind = "Mut" /\ issued_kind = "Unique" ->
             [ctor |-> "cannot_reborrow_already_uniquely_borrowed",
              strs |-> <<"", "mutable", "">>]
      [] gen_borrow_kind = "Shared" /\ issued_kind = "Shared" ->
             [ctor |-> "unreachable", strs |-> <<>>]

\* Lines 348-371: the labels on the captured variables of the two borrows.
conflicting_borrow_labels(issued_spans, bspans, desc_place, borrow_place_desc) ==
    IF issued_spans = bspans
    THEN var_span_label(bspans, <<>>,
             "borrows occur due to use of " \o quoted(desc_place) \o " in closure")
    ELSE var_span_label(bspans,
             var_span_label(issued_spans, <<>>,
                 "first borrow occurs due to use of " \o quoted(borrow_place_desc) \o " in closure"),
             "second borrow occurs due to use of " \o quoted(desc_place) \o " in closure")

\* report_conflicting_borrow pointing at the use inside the closure instead
\* of the closure itself.
report_conflicting_borrow_at_use(loc, place, span0, gen_borrow_kind, issued_borrow) ==
    LET report(issued_spans, bspans, d, err, bd) ==
            [span |-> args_or_use(bspans),
             res |-> IF d.tag = "Bug" \/ err.ctor = "unreachable"
                        \/ (issued_spans # bspans /\ bd.tag = "Bug")
                     THEN Aborted
                     ELSE Buffered(Diag(err.ctor, var_or_use(bspans),
                              <<unwrap_or(d, "_")>> \o err.strs, <<args_or_use(issued_spans)>>,
                              conflicting_borrow_labels(issued_spans, bspans, unwrap_or(d, "_"),
                                                        unwrap_or(bd, "_")),
                              <<>>))]
    IN report(retrieve_borrow_spans(issued_borrow), borrow_spans(span0, loc),
              describe_place(place), conflict_error(gen_borrow_kind, issued_borrow.kind),
              describe_place(issued_borrow.borrowed_place))

report_conflicting_borrow(loc, place, span0, gen_borrow_kind, issued_borrow) ==
    LET report(issued_spans, bspans, d, err, bd) ==
            [span |-> args_or_use(bspans),
             res |-> IF d.tag = "Bug" \/ err.ctor = "unreachable"
                        \/ (issued_spans # bspans /\ bd.tag = "Bug")
                     THEN Aborted
                     ELSE Buffered(Diag(err.ctor, args_or_use(bspans),
                              <<unwrap_or(d, "_")>> \o err.strs, <<args_or_use(issued_spans)>>,
                              conflicting_borrow_labels(issued_spans, bspans, unwrap_or(d, "_"),
                                                        unwrap_or(bd, "_")),
                              <<>>))]
    IN report(retrieve_borrow_spans(issued_borrow), borrow_spans(span0, loc),
              describe_place(place), conflict_error(gen_borrow_kind, issued_borrow.kind),
              describe_place(issued_borrow.borrowed_place))

\* places_conflict looking at the roots alone.
places_conflict_by_root(borrow_place, access_place) ==
    borrow_place.base = access_place.base

\* places_conflict (borrow_check/places_conflict.rs): two places overlap when
\* one is an ancestor of the other or they are the same fragment.
places_conflict(borrow_place, access_place) ==
    LET m == IF Len(borrow_place.elems) < Len(access_place.elems)
             THEN Len(borrow_place.elems) ELSE Len(access_place.elems)
    IN /\ borrow_place.base = access_place.base
       /\ SubSeq(borrow_place.elems, 1, m) = SubSeq(access_place.elems, 1, m)

\* check_access_for_conflict (borrow_check/mod.rs): a new borrow against a
\* live issued borrow reaches report_conflicting_borrow unless both are
\* shared.
conflicting_borrow_reported(gen_borrow_kind, issued_kind) ==
    ~(gen_borrow_kind = "Shared" /\ issued_kind = "Shared")

ReportConflictingBorrow ==
    /\ ~aborted
    /\ \E new \in DOMAIN borrow_set, issued \in DOMAIN borrow_set :
         \E gen \in {borrow_set[new]}, issued_borrow \in {borrow_set[issued]} :
            /\ places_conflict(issued_borrow.borrowed_place, gen.borrowed_place)
            /\ conflicting_borrow_reported(gen.kind, issued_borrow.kind)
            /\ \E r \in {report_conflicting_borrow(gen.reserve_location, gen.borrowed_place,
                              source_info_span(gen.reserve_location), gen.kind,
                              issued_borrow)} :
                  Finish(r.res, Call("report_conflicting_borrow", gen.borrowed_place, r.span,
                                     <<>>, new, issued))
            /\ UNCHANGED <<moved_error_reported, access_place_error_reported>>

\* ----------------------------- report_borrowed_value_does_not_live_long_enough
\* access_place_suppressed keyed by the root place alone (the blame span
\* dropped from the key).
access_place_suppressed_by_root(root_place, borrow_span, reported) ==
    \E k \in reported : k[1] = root_place

\* Lines 398-407: the one-shot suppression per (root place, blame span).
access_place_suppressed(root_place, borrow_span, reported) ==
    <<root_place, borrow_span>> \in reported

report_local_value_does_not_live_long_enough(name, drop_span, borrow_span) ==
    Diag("path_does_not_live_long_enough", borrow_span, <<quoted(name)>>, <<>>,
         << <<borrow_span, "borrowed value does not live long enough">>,
            <<drop_span, quoted(name) \o " dropped here while still borrowed">> >>,
         <<>>)

report_temporary_value_does_not_live_long_enough(drop_span, proper_span) ==
    Diag("path_does_not_live_long_enough", proper_span, <<"borrowed value">>, <<>>,
         << <<proper_span, "temporary value does not live long enough">>,
            <<drop_span, "temporary value only lives until here">> >>,
         <<>>)

report_borrowed_value_does_not_live_long_enough(borrow, drop_span, reported) ==
    LET proper_span(root_place) ==
            IF root_place.base.kind = "Local" /\ has_no_projection(root_place)
            THEN local_decls[root_place.base.local].span
            ELSE drop_span
        error(root_place, borrow_span, d) ==
            IF d.tag = "Some"
            THEN report_local_value_does_not_live_long_enough(d.s, drop_span, borrow_span)
            ELSE report_temporary_value_does_not_live_long_enough(drop_span,
                     proper_span(root_place))
        buffer(bspans, d, err) ==
            IF d.tag = "Bug" THEN Aborted
            ELSE Buffered([err EXCEPT !.labels =
                              args_span_label(bspans, err.labels, "value captured here")])
        report(root_place, bspans, borrow_span, d) ==
            IF access_place_suppressed(root_place, borrow_span, reported)
            THEN [res |-> Suppressed, reported |-> reported, span |-> borrow_span]
            ELSE [res |-> buffer(bspans, d, error(root_place, borrow_span, d)),
                  reported |-> reported \cup {<<root_place, borrow_span>>},
                  span |-> borrow_span]
        with_spans(bspans) ==
            report(elem_base(borrow.borrowed_place, 0), bspans, var_or_use(bspans),
                   describe_place(borrow.borrowed_place))
    IN with_spans(retrieve_borrow_spans(borrow))

\* The spans at which the storage of a borrowed root ends.
DropSpans == {35, 36}

ReportBorrowedValueDoesNotLiveLongEnough ==
    /\ ~aborted
    /\ \E b \in DOMAIN borrow_set, drop_span \in DropSpans :
         \E r \in {report_borrowed_value_does_not_live_long_enough(borrow_set[b], drop_span,
                       access_place_error_reported)} :
            /\ access_place_error_reported' = r.reported
            /\ Finish(r.res, Call("report_borrowed_value_does_not_live_long_enough",
                                  borrow_set[b].borrowed_place, r.span, <<>>, 0, b))
            /\ UNCHANGED moved_error_reported

\* ---------------------------------------------- report_illegal_reassignment
\* A call of report_illegal_reassignment: the place assigned and the span
\* of the assignment, the span of the earlier assignment, and the place
\* that is the reason why `place` is not mutable.
AssignCall(place, span, assigned_span, err_place) ==
    [fn |-> "report_illegal_reassignment", place |-> place, span |-> span, mois |-> <<>>,
     gen |-> 0, issued |-> 0, outcome |-> "", assigned_span |-> assigned_span,
     err_place |-> err_place]

\* Lines 532-543: Some(local) when err_place is a local without projection.
reassigned_local(err_place) ==
    IF err_place.base.kind = "Local" /\ has_no_projection(err_place)
    THEN Some(err_place.base.local) ELSE None

\* refers_to_place treating every user variable as initialized at once.
refers_to_place_unless_user_variable(local_decl) ==
    \/ ~local_decl.some
    \/ is_user_variable[local_decl.v].form = "None"

\* Lines 548-566: the error refers to the place assigned (and to the span
\* of the first assignment) unless the root local is initialized at once.
refers_to_place(local_decl) ==
    \/ ~local_decl.some
    \/ is_user_variable[local_decl.v].form \in {"Clear", "None"}
    \/ /\ is_user_variable[local_decl.v].form = "Var"
       /\ ~is_user_variable[local_decl.v].opt_match_place

\* report_illegal_reassignment with the first-assignment label added also
\* when the two spans are the same.
report_illegal_reassignment_always_first(place, span, assigned_span0, err_place) ==
    LET labels(local_decl, from_arg, place_description, assigned_span) ==
            (IF ~from_arg
             THEN << <<assigned_span, "first assignment to " \o quoted_or_value(place_description)>> >>
             ELSE <<>>)
            \o (IF local_decl.some /\ local_decls[local_decl.v].name.some
                   /\ can_be_made_mutable(local_decl.v)
                THEN << <<local_decls[local_decl.v].span,
                          "consider changing this to 'mut "
                              \o local_decls[local_decl.v].name.v \o "'">> >>
                ELSE <<>>)
            \o << <<span, IF from_arg THEN "cannot assign to immutable argument"
                          ELSE "cannot assign twice to immutable variable">> >>
        report(local_decl, from_arg, place_description, assigned_span) ==
            IF place_description.tag = "Bug" THEN Aborted
            ELSE Buffered(Diag("cannot_reassign_immutable", span,
                     <<unwrap_or(place_description, "_"),
                       IF from_arg THEN "argument" ELSE "variable">>, <<>>,
                     labels(local_decl, from_arg, place_description, assigned_span), <<>>))
        with_decl(local_decl) ==
            report(local_decl,
                   local_decl.some /\ local_decls[local_decl.v].kind = "Arg",
                   describe_place(IF refers_to_place(local_decl) THEN place ELSE err_place),
                   IF refers_to_place(local_decl) THEN assigned_span0
                   ELSE local_decls[local_decl.v].span)
    IN with_decl(reassigned_local(err_place))

\* Reports an illegal reassignment (lines 525-601).
report_illegal_reassignment(place, span, assigned_span0, err_place) ==
    LET labels(local_decl, from_arg, place_description, assigned_span) ==
            (IF span # assigned_span /\ ~from_arg
             THEN << <<assigned_span, "first assignment to " \o quoted_or_value(place_description)>> >>
             ELSE <<>>)
            \o (IF local_decl.some /\ local_decls[local_decl.v].name.some
                   /\ can_be_made_mutable(local_decl.v)
                THEN << <<local_decls[local_decl.v].span,
                          "consider changing this to 'mut "
                              \o local_decls[local_decl.v].name.v \o "'">> >>
                ELSE <<>>)
            \o << <<span, IF from_arg THEN "cannot assign to immutable argument"
                          ELSE "cannot assign twice to immutable variable">> >>
        report(local_decl, from_arg, place_description, assigned_span) ==
            IF place_description.tag = "Bug" THEN Aborted
            ELSE Buffered(Diag("cannot_reassign_immutable", span,
                     <<unwrap_or(place_description, "_"),
                       IF from_arg THEN "argument" ELSE "variable">>, <<>>,
                     labels(local_decl, from_arg, place_description, assigned_span), <<>>))
        with_decl(local_decl) ==
            report(local_decl,
                   local_decl.some /\ local_decls[local_decl.v].kind = "Arg",
                   describe_place(IF refers_to_place(local_decl) THEN place ELSE err_place),
                   IF refers_to_place(local_decl) THEN assigned_span0
                   ELSE local_decls[local_decl.v].span)
    IN with_decl(reassigned_local(err_place))

\* The assignments the checker finds illegal: the place assigned and the
\* place whose immutability forbids it.
ReassignedPlaces ==
    { <<LocalPlace(l), LocalPlace(l)>> : l \in {2, 3, 4, 6, 7, 9, 11, 13} }
        \cup { <<a_b, a_place>>, <<a_n, a_place>>, <<w_0, w_0>>,
               <<Place(StaticBase("G", "S"), <<>>), Place(StaticBase("G", "S"), <<>>)>> }

AssignSpans == {50, 51}

ReportIllegalReassignment ==
    /\ ~aborted
    /\ \E pe \in ReassignedPlaces, span \in AssignSpans, assigned_span \in AssignSpans :
         /\ Finish(report_illegal_reassignment(pe[1], span, assigned_span, pe[2]),
                   AssignCall(pe[1], span, assigned_span, pe[2]))
         /\ UNCHANGED <<moved_error_reported, access_place_error_reported>>

\* ------------------------------------------- reports of accesses to borrows
\* Lines 175-211.
report_move_out_while_borrowed(loc, place, borrow) ==
    LET labels(bspans, mspans, borrow_span, span, value_msg, borrow_msg) ==
            var_span_label(mspans,
                var_span_label(bspans,
                    << <<borrow_span, "borrow of " \o borrow_msg \o " occurs here">>,
                       <<span, "move out of " \o value_msg \o " occurs here">> >>,
                    "borrow occurs due to use in closure"),
                "move occurs due to use in closure")
        report(bspans, mspans, d, bd) ==
            [span |-> args_or_use(mspans),
             res |-> IF d.tag = "Bug" \/ bd.tag = "Bug" THEN Aborted
                     ELSE Buffered(Diag("cannot_move_when_borrowed", args_or_use(mspans),
                              <<unwrap_or(d, "_")>>, <<>>,
                              labels(bspans, mspans, args_or_use(bspans), args_or_use(mspans),
                                     quoted_or_value(d), quoted_or_value(bd)),
                              <<>>))]
    IN report(retrieve_borrow_spans(borrow), move_spans(place, loc),
              describe_place(place), describe_place(borrow.borrowed_place))

\* Lines 213-248: only move captures are looked for (move_spans).
report_use_while_mutably_borrowed(loc, place, borrow) ==
    LET report(bspans, use_spans, d, bd) ==
            [span |-> var_or_use(use_spans),
             res |-> IF d.tag = "Bug" \/ bd.tag = "Bug" THEN Aborted
                     ELSE Buffered(Diag("cannot_use_when_mutably_borrowed", var_or_use(use_spans),
                              <<unwrap_or(d, "_"), unwrap_or(bd, "_")>>, <<args_or_use(bspans)>>,
                              var_span_label(bspans, <<>>,
                                  "borrow occurs due to use of " \o quoted(unwrap_or(bd, "_"))
                                      \o " in closure"),
                              <<>>))]
    IN report(retrieve_borrow_spans(borrow), move_spans(place, loc),
              describe_place(place), describe_place(borrow.borrowed_place))

\* Lines 495-517.
report_illegal_mutation_of_borrowed(place, span, loan) ==
    LET report(loan_spans, d) ==
            IF d.tag = "Bug" THEN Aborted
            ELSE Buffered(Diag("cannot_assign_to_borrowed", span, <<unwrap_or(d, "_")>>,
                     <<args_or_use(loan_spans)>>,
                     var_span_label(loan_spans, <<>>, "borrow occurs due to use in closure"),
                     <<>>))
    IN report(retrieve_borrow_spans(loan), describe_place(place))

\* A move-out, a use or an assignment reaches these reports when the place
\* overlaps the place of a live borrow (check_access_for_conflict).
ReportMoveOutWhileBorrowed ==
    /\ ~aborted
    /\ \E m \in DOMAIN moves, b \in DOMAIN borrow_set :
         \E place \in {move_paths[moves[m].path].place} :
            /\ places_conflict(borrow_set[b].borrowed_place, place)
            /\ \E r \in {report_move_out_while_borrowed(moves[m].source, place, borrow_set[b])} :
                  Finish(r.res, Call("report_move_out_while_borrowed", place, r.span, <<m>>, 0, b))
            /\ UNCHANGED <<moved_error_reported, access_place_error_reported>>

ReportUseWhileMutablyBorrowed ==
    /\ ~aborted
    /\ \E u \in UseSites, b \in DOMAIN borrow_set :
         /\ borrow_set[b].kind \in {"Mut", "Unique"}
         /\ places_conflict(borrow_set[b].borrowed_place, u.place)
         /\ \E r \in {report_use_while_mutably_borrowed(u.loc, u.place, borrow_set[b])} :
               Finish(r.res, Call("report_use_while_mutably_borrowed", u.place, r.span, <<>>, 0, b))
         /\ UNCHANGED <<moved_error_reported, access_place_error_reported>>

ReportIllegalMutationOfBorrowed ==
    /\ ~aborted
    /\ \E pe \in ReassignedPlaces, span \in AssignSpans, b \in DOMAIN borrow_set :
         /\ places_conflict(borrow_set[b].borrowed_place, pe[1])
         /\ Finish(report_illegal_mutation_of_borrowed(pe[1], span, borrow_set[b]),
                   Call("report_illegal_mutation_of_borrowed", pe[1], span, <<>>, 0, b))
         /\ UNCHANGED <<moved_error_reported, access_place_error_reported>>

\* ------------------------------------------------------------ place_ext.rs
\* tcx.is_static of the statics of the crate: G is a static, M a static mut.
is_static(name) == Some(IF name = "M" THEN "MutMutable" ELSE "MutImmutable")

\* The places asked about: the places of the body and the same paths
\* rooted at the static mut.
ExtPlaces ==
    Places \cup { Place(StaticBase("M", q.base.ty), q.elems) :
                     q \in { r \in Places : r.base.kind = "Static" } }

\* Place::split_projection: the place without its last projection, and
\* that projection; None for a place without projections.
split_projection(place) ==
    IF place.elems = <<>> THEN None
    ELSE Some([base_place |-> elem_base(place, Len(place.elems) - 1),
               projection |-> place.elems[Len(place.elems)]])

RECURSIVE is_unsafe_place(_)
\* is_unsafe_place looking at the last projection only.
is_unsafe_place_of_last_projection(place) ==
    IF split_projection(place).some
    THEN /\ split_projection(place).v.projection.k = "Deref"
         /\ TyTable[place_ty(split_projection(place).v.base_place)].k = "TyRawPtr"
    ELSE /\ place.base.kind = "Static"
         /\ is_static(place.base.name) = Some("MutMutable")

\* Lines 27-52.
is_unsafe_place(place) ==
    IF split_projection(place).some
    THEN IF split_projection(place).v.projection.k = "Deref"
         THEN IF TyTable[place_ty(split_projection(place).v.base_place)].k = "TyRawPtr"
              THEN TRUE
              ELSE is_unsafe_place(split_projection(place).v.base_place)
         ELSE is_unsafe_place(split_projection(place).v.base_place)
    ELSE IF place.base.kind \in {"Promoted", "Local"} THEN FALSE
         ELSE is_static(place.base.name) = Some("MutMutable")

\* One call of a pure function at a time.
Computing == computed.fn = "root_local" /\ ~computed.done

PureFrame ==
    UNCHANGED <<moved_error_reported, access_place_error_reported, errors_buffer,
                aborted, last, origins, place_arg, described, resolved, FlowVars, PassVars>>

IsUnsafePlace ==
    /\ ~Computing
    /\ computed' = [fn |-> "is_unsafe_place", res |-> is_unsafe_place(place_arg)]
    /\ PureFrame

\* root_local, lines 54-70: `let mut p = self`, then the loop, one
\* iteration a step.
root_local_return_first(p) ==
    [p |-> p, done |-> TRUE,
     res |-> IF p.base.kind = "Local" /\ p.elems = <<>> THEN Some(p.base.local) ELSE None]

root_local_iteration(p) ==
    IF split_projection(p).some
    THEN [p |-> split_projection(p).v.base_place, done |-> FALSE, res |-> None]
    ELSE [p |-> p, done |-> TRUE,
          res |-> IF p.base.kind \in {"Promoted", "Static"} THEN None
                  ELSE Some(p.base.local)]

RootLocal ==
    /\ ~Computing
    /\ computed' = [fn |-> "root_local", p |-> place_arg, done |-> FALSE, res |-> None]
    /\ PureFrame

RootLocalLoop ==
    /\ Computing
    /\ \E it \in {root_local_iteration(computed.p)} :
          computed' = [computed EXCEPT !.p = it.p, !.done = it.done, !.res = it.res]
    /\ PureFrame

InitPlaceExt ==
    /\ InitCtxt
    /\ place_arg \in ExtPlaces
    /\ described = NotDescribed

NextPlaceExt == IsUnsafePlace \/ RootLocal \/ RootLocalLoop

\* The loop of root_local runs on once entered.
SpecPlaceExt == InitPlaceExt /\ [][NextPlaceExt]_vars /\ WF_vars(RootLocalLoop)

\* ------------------------------------------------------- librustdoc/theme.rs
\* Longest input left in the iterator when get_string is called.
MaxInput == 4

\* The characters that get_string tells apart, and any other one.
DQuote == "dquote"
SQuote == "squote"
Backslash == "backslash"
ThemeChars == {DQuote, SQuote, Backslash, "a"}

RECURSIVE CharsUpTo(_)
CharsUpTo(n) ==
    IF n = 0 THEN {<<>>}
    ELSE CharsUpTo(n - 1) \cup
         { Append(t, c) : t \in { u \in CharsUpTo(n - 1) : Len(u) = n - 1 }, c \in ThemeChars }

\* get_string, lines 20-33: iter is what the iterator still holds, s the
\* string built so far; the result is s and the iterator left behind.
RECURSIVE get_string_loop(_, _, _)
get_string_loop(iter, s, string_start) ==
    IF iter = <<>> THEN [s |-> s, iter |-> iter]
    ELSE IF Head(iter) = Backslash
         THEN get_string_loop(IF Tail(iter) = <<>> THEN <<>> ELSE Tail(Tail(iter)),
                              Append(s, Head(iter)), string_start)
         ELSE IF Head(iter) = string_start
              THEN [s |-> Append(s, Head(iter)), iter |-> Tail(iter)]
              ELSE get_string_loop(Tail(iter), Append(s, Head(iter)), string_start)

get_string(iter, string_start) == get_string_loop(iter, <<string_start>>, string_start)

\* handle_common_chars, lines 54-55, has consumed the quote character c and
\* calls get_string(iter, c).
GetString ==
    /\ computed.fn = "input"
    /\ \E c \in {DQuote, SQuote} :
          computed' = [fn |-> "get_string", input |-> computed.input, string_start |-> c,
                       res |-> get_string(computed.input, c)]
    /\ PureFrame

InitTheme ==
    /\ FlowIdle
    /\ PassIdle
    /\ InitReports
    /\ place_arg = Place(PromotedBase("i32"), <<>>)
    /\ described = NotDescribed
    /\ computed \in { [fn |-> "input", input |-> t] : t \in CharsUpTo(MaxInput) }

NextTheme == GetString

SpecTheme == InitTheme /\ [][NextTheme]_vars

\* ------------------------------------------------ deriving/cmp/partial_ord.rs
\* Largest number of fields of the value the comparison is derived for.
MaxFields == 3

\* What PartialOrd::partial_cmp of one field can return: Some(Less),
\* Some(Equal), Some(Greater) or None.
Orderings == {"Less", "Equal", "Greater", "None"}

RECURSIVE ResultsUpTo(_)
ResultsUpTo(n) ==
    IF n = 0 THEN {<<>>}
    ELSE ResultsUpTo(n - 1) \cup
         { Append(t, c) : t \in { u \in ResultsUpTo(n - 1) : Len(u) = n - 1 }, c \in Orderings }

\* The expressions built: a call of partial_cmp on the two values of a
\* field, Some(Equal), and the match of lines 84-88.
ExprCall(field) == [k |-> "call", field |-> field]
ExprSomeEqual == [k |-> "some_equal"]
ExprMatch(new, old) == [k |-> "match", new |-> new, old |-> old]

\* Lines 66-89: the closure folded over the fields.
cs_partial_cmp_f(old, field) == ExprMatch(ExprCall(field), old)

\* The base case leaving the last field out.
cs_partial_cmp_b_some_equal(arg) == ExprSomeEqual

\* Lines 90-106: the base case, for the last field or for no field (0).
cs_partial_cmp_b(arg) ==
    IF arg # 0 THEN ExprCall(arg) ELSE ExprSomeEqual

\* cs_fold(false, f, b, ..) as lines 62-65 use it: the base case takes the
\* last field, the others are folded from the right, the first outermost.
RECURSIVE cs_fold_fields(_, _)
cs_fold_fields(base, rest) ==
    IF rest = 0 THEN base
    ELSE cs_fold_fields(cs_partial_cmp_f(base, rest), rest - 1)

cs_partial_cmp(fields) ==
    IF fields = 0 THEN cs_partial_cmp_b(0)
    ELSE cs_fold_fields(cs_partial_cmp_b(fields), fields - 1)

\* What the built expression evaluates to: `Some(Equal) => old, cmp => cmp`.
RECURSIVE EvalExpr(_, _)
EvalExpr(expr, results) ==
    CASE expr.k = "call" -> results[expr.field]
      [] expr.k = "some_equal" -> "Equal"
      [] OTHER -> IF EvalExpr(expr.new, results) = "Equal"
                  THEN EvalExpr(expr.old, results)
                  ELSE EvalExpr(expr.new, results)

CsPartialCmp ==
    /\ computed.fn = "fields"
    /\ \E expr \in {cs_partial_cmp(Len(computed.results))} :
          computed' = [fn |-> "cs_partial_cmp", results |-> computed.results, expr |-> expr,
                       res |-> EvalExpr(expr, computed.results)]
    /\ PureFrame

InitPartialOrd ==
    /\ FlowIdle
    /\ PassIdle
    /\ InitReports
    /\ place_arg = Place(PromotedBase("i32"), <<>>)
    /\ described = NotDescribed
    /\ computed \in { [fn |-> "fields", results |-> t] : t \in ResultsUpTo(MaxFields) }

NextPartialOrd == CsPartialCmp

SpecPartialOrd == InitPartialOrd /\ [][NextPartialOrd]_vars

\* ------------------------------------------- rustc_mir_transform/trampoline.rs
\* Largest number of statements and terminators (and of blocks) traversed.
MaxVisits == 4

\* The types of the bodies the pass runs on: a type parameter, a projection
\* of it, a projection of a concrete type, and concrete types.
PassTy ==
    [n \in {"S", "Out", "StrOut", "String", "u32"} |->
        CASE n = "S"      -> [k |-> "Param", self_ty |-> ""]
          [] n = "Out"    -> [k |-> "Projection", self_ty |-> "S"]
          [] n = "StrOut" -> [k |-> "Projection", self_ty |-> "String"]
          [] OTHER        -> [k |-> "Adt", self_ty |-> ""]]

\* Lines 137-143.
RECURSIVE is_generic(_)
is_generic(ty) ==
    CASE PassTy[ty].k = "Param" -> TRUE
      [] PassTy[ty].k = "Projection" -> is_generic(PassTy[ty].self_ty)
      [] OTHER -> FALSE

\* The bodies: arg_count and the types of the locals _1.._5 (the arguments
\* are the first arg_count locals).
PassBody(arg_count, decls) == [arg_count |-> arg_count, local_decls |-> decls]

PassBodies ==
    { PassBody(0, <<"String", "u32", "String", "u32", "S">>),
      PassBody(1, <<"S", "u32", "String", "u32", "S">>),
      PassBody(2, <<"S", "Out", "String", "u32", "S">>),
      PassBody(2, <<"StrOut", "S", "String", "u32", "Out">>) }

\* Statements: an assignment of a use of a local (Move or Copy), of
\* another rvalue (source 0), or a statement that is no assignment.
PassAssign(lhs, source) == [kind |-> "Assign", lhs |-> lhs, sources |-> <<source>>]
PassNop == [kind |-> "Nop", lhs |-> 0, sources |-> <<>>]
PassStatements ==
    { PassAssign(5, 1), PassAssign(3, 5), PassAssign(3, 1), PassAssign(4, 3),
      PassAssign(4, 2), PassAssign(3, 0), PassAssign(5, 0), PassNop }

\* Terminators: a call (argument 0 is a constant operand) or another one.
PassCall(sources, destination) == [kind |-> "Call", lhs |-> destination, sources |-> sources]
PassGoto == [kind |-> "Goto", lhs |-> 0, sources |-> <<>>]
PassTerminators ==
    { PassCall(<<1>>, 3), PassCall(<<>>, 4), PassCall(<<3, 2>>, 4), PassCall(<<0, 2>>, 5),
      PassGoto }

\* ConvergenceVisitor::new, lines 39-50.
NotConverged == [convergence_point |-> None, converged_type |-> None]
GenericArgs(body) ==
    { arg \in 1..body.arg_count : is_generic(body.local_decls[arg]) }
new_args(body) == [arg \in GenericArgs(body) |-> NotConverged]
new_arg_flow(body) == [arg \in GenericArgs(body) |-> {arg}]

\* The check of lines 87 and 96 always failing.
all_args_converged_never(a) == FALSE

\* Lines 52-54.
all_args_converged(a) ==
    \A arg \in DOMAIN a : a[arg].convergence_point.some

\* Lines 64-68: flow maps a local to a set of arguments; a local without
\* an entry is outside its domain.
update_arg_flow(flow, source, destination) ==
    IF source \in DOMAIN flow
    THEN [l \in DOMAIN flow \cup {destination} |->
             IF l = destination
             THEN (IF l \in DOMAIN flow THEN flow[l] ELSE {}) \cup flow[source]
             ELSE flow[l]]
    ELSE flow

RECURSIVE update_arg_flows(_, _, _)
update_arg_flows(flow, sources, destination) ==
    IF sources = <<>> THEN flow
    ELSE update_arg_flows(update_arg_flow(flow, Head(sources), destination),
                          Tail(sources), destination)

\* Lines 71-82.
check_convergence(a, flow, local, new_ty, location) ==
    IF local \in DOMAIN flow
    THEN [arg \in DOMAIN a |->
             IF /\ arg \in flow[local]
                /\ ~is_generic(new_ty)
                /\ Some(new_ty) # a[arg].converged_type
             THEN [convergence_point |-> Some(location), converged_type |-> Some(new_ty)]
             ELSE a[arg]]
    ELSE a

\* visit_statement, lines 106-118, and the Call arm of visit_terminator,
\* lines 120-134: the new arg_flow and args.
visit_flow(node) ==
    IF node.kind \in {"Assign", "Call"}
    THEN update_arg_flows(arg_flow, node.sources, node.lhs)
    ELSE arg_flow

visit_args(node, location) ==
    IF node.kind \in {"Assign", "Call"}
    THEN check_convergence(args, visit_flow(node), node.lhs,
                           cursor.body.local_decls[node.lhs], location)
    ELSE args

PassLocation(block, statement_index) == [block |-> block, statement_index |-> statement_index]

PassFrame ==
    UNCHANGED <<moved_error_reported, access_place_error_reported, errors_buffer,
                aborted, last, origins, place_arg, described, resolved, FlowVars, computed>>

\* visit_basic_block_data up to the loop, lines 86-90, called by the
\* traversal for the next block or again for an earlier one.
VisitBasicBlockData ==
    /\ cursor.at = "body"
    /\ \E block \in 1..(cursor.blocks + 1) :
         /\ block <= MaxVisits
         /\ IF block \in visited \/ all_args_converged(args)
            THEN /\ cursor' = [cursor EXCEPT !.blocks = IF block > @ THEN block ELSE @]
                 /\ UNCHANGED visited
            ELSE /\ cursor' = [cursor EXCEPT !.at = "block", !.block = block, !.index = 0,
                                             !.blocks = IF block > @ THEN block ELSE @]
                 /\ visited' = visited \cup {block}
    /\ UNCHANGED <<args, arg_flow, visits>>
    /\ PassFrame

\* One iteration of the loop over the statements, lines 92-99.
VisitStatement ==
    /\ cursor.at = "block"
    /\ Len(visits) + 1 < MaxVisits
    /\ \E statement \in PassStatements :
         \E location \in {PassLocation(cursor.block, cursor.index)} :
            /\ arg_flow' = visit_flow(statement)
            /\ args' = visit_args(statement, location)
            /\ visits' = Append(visits, [location |-> location, node |-> statement])
            /\ cursor' = IF all_args_converged(visit_args(statement, location))
                          THEN [cursor EXCEPT !.at = "body"]
                          ELSE [cursor EXCEPT !.index = @ + 1]
    /\ UNCHANGED visited
    /\ PassFrame

\* The terminator, lines 101-103.
VisitTerminator ==
    /\ cursor.at = "block"
    /\ Len(visits) < MaxVisits
    /\ \E terminator \in PassTerminators :
         \E location \in {PassLocation(cursor.block, cursor.index)} :
            /\ arg_flow' = visit_flow(terminator)
            /\ args' = visit_args(terminator, location)
            /\ visits' = Append(visits, [location |-> location, node |-> terminator])
            /\ cursor' = [cursor EXCEPT !.at = "body"]
    /\ UNCHANGED visited
    /\ PassFrame

InitPass ==
    /\ FlowIdle
    /\ InitReports
    /\ computed = NotComputed
    /\ place_arg = Place(PromotedBase("i32"), <<>>)
    /\ described = NotDescribed
    /\ \E body \in PassBodies :
         /\ cursor = [body |-> body, at |-> "body", block |-> 0, index |-> 0, blocks |-> 0]
         /\ args = new_args(body)
         /\ arg_flow = new_arg_flow(body)
    /\ visited = {}
    /\ visits = <<>>

NextPass == VisitBasicBlockData \/ VisitStatement \/ VisitTerminator

SpecPass == InitPass /\ [][NextPass]_vars

\* ------------------------------------------------------- the flow analysis
\* A forward, may-reach analysis of the moved-out move paths over the blocks
\* of the body, by a worklist.
Blocks == DOMAIN basic_blocks

\* A terminator has at most this many successors.
MaxSuccessors == 2

\* The move paths moved out of in a block, and the ones initialised again
\* by an assignment to the local a in it.
flow_gen(b) == { moves[m].path : m \in { k \in DOMAIN moves : moves[k].source.block = b } }
flow_kill(b) ==
    IF b = reinit_block
    THEN { mpi \in DOMAIN move_paths : move_paths[mpi].place.base = a_place.base }
    ELSE {}

\* The state threaded through the instructions of the block.
flow_exit(b, entry) == (entry \ flow_kill(b)) \cup flow_gen(b)

\* The merge that overwrites the entry state of the successor.
flow_merge_overwrite(entry, exit) == exit

\* The merge at a block entry: monotone union.
flow_merge(entry, exit) ==
    entry \cup exit

predecessors(b) == { p \in Blocks : b \in successors[p] }

InitFlow ==
    /\ InitReports
    /\ computed = NotComputed
    /\ PassIdle
    /\ place_arg = Place(PromotedBase("i32"), <<>>)
    /\ described = NotDescribed
    /\ successors \in [Blocks -> { t \in SUBSET Blocks : Cardinality(t) <= MaxSuccessors }]
    /\ reinit_block \in {0} \cup Blocks
    /\ on_entry = [b \in Blocks |-> {}]
    /\ worklist = Blocks

\* The solver visits the blocks in index order.
next_block(w) == CHOOSE b \in w : \A c \in w : b <= c

\* One step of the solver: take a block off the worklist, thread its entry
\* state through it, merge the exit state into every successor and put the
\* successors whose entry state changed back on the worklist.
Propagate ==
    /\ worklist # {}
    /\ \E b \in {next_block(worklist)} :
         \E new \in {[s \in Blocks |->
                         IF s \in successors[b]
                         THEN flow_merge(on_entry[s], flow_exit(b, on_entry[b]))
                         ELSE on_entry[s]]} :
            /\ on_entry' = new
            /\ worklist' = (worklist \ {b}) \cup { s \in Blocks : new[s] # on_entry[s] }
    /\ UNCHANGED <<successors, reinit_block, place_arg, described>>
    /\ UNCHANGED <<moved_error_reported, access_place_error_reported, errors_buffer,
                   aborted, last, origins, resolved, computed, PassVars>>

NextFlow == Propagate

\* The solver is a loop that runs until the worklist is empty.
SpecFlow == InitFlow /\ [][NextFlow]_vars /\ WF_vars(NextFlow)

\* ----------------------------------------------------------- specification
Init ==
    /\ InitCtxt
    /\ place_arg = Place(PromotedBase("i32"), <<>>)
    /\ described = NotDescribed

Next ==
    \/ ReportUseOfMovedOrUninitialized
    \/ ReportConflictingBorrow
    \/ ReportBorrowedValueDoesNotLiveLongEnough
    \/ ReportMoveOutWhileBorrowed
    \/ ReportUseWhileMutablyBorrowed
    \/ ReportIllegalMutationOfBorrowed
    \/ ReportIllegalReassignment

Spec == Init /\ [][Next]_vars

\* The move checker alone, and the borrow checker alone.
NextMoves == ReportUseOfMovedOrUninitialized

SpecMoves == Init /\ [][NextMoves]_vars

NextBorrows ==
    \/ ReportConflictingBorrow
    \/ ReportBorrowedValueDoesNotLiveLongEnough

SpecBorrows == Init /\ [][NextBorrows]_vars

\* The span resolver (asked about the moves of `a` and about the borrows
\* of the body) interleaved with the reports of conflicting borrows.
InitResolve ==
    /\ InitCtxt
    /\ place_arg = a_place
    /\ described = NotDescribed

NextResolve == MoveSpans \/ RetrieveBorrowSpans \/ ReportConflictingBorrow

SpecResolve == InitResolve /\ [][NextResolve]_vars

\* The reports of moves, uses and assignments that meet a live borrow.
NextAccess ==
    \/ ReportMoveOutWhileBorrowed
    \/ ReportUseWhileMutablyBorrowed
    \/ ReportIllegalMutationOfBorrowed

SpecAccess == Init /\ [][NextAccess]_vars

\* The assignment checker alone.
NextAssign == ReportIllegalReassignment

SpecAssign == Init /\ [][NextAssign]_vars

\* All the reports, until the buffer holds MaxErrors diagnostics.
BufferOpen == Len(errors_buffer) < MaxErrors

NextReports ==
    \/ BufferOpen /\ ReportUseOfMovedOrUninitialized
    \/ BufferOpen /\ ReportConflictingBorrow
    \/ BufferOpen /\ ReportBorrowedValueDoesNotLiveLongEnough
    \/ BufferOpen /\ ReportMoveOutWhileBorrowed
    \/ BufferOpen /\ ReportUseWhileMutablyBorrowed
    \/ BufferOpen /\ ReportIllegalMutationOfBorrowed
    \/ BufferOpen /\ ReportIllegalReassignment

SpecReports == Init /\ [][NextReports]_vars

\* ================================================================== claims
Root(call) == elem_base(call.place, 0)
UseOfMoved == "report_use_of_moved_or_uninitialized"
ConflictingBorrow == "report_conflicting_borrow"
DoesNotLiveLongEnough == "report_borrowed_value_does_not_live_long_enough"
KindOf(b) == borrow_set[b].kind

\* C1: among the buffered diagnostics of report_use_of_moved_or_uninitialized
\* no two are about places with the same root: only the first use of a moved
\* or uninitialized root is reported, the later ones are suppressed.
C1_OneUseOfMovedPerRoot ==
    \A i, j \in DOMAIN origins :
        (i < j /\ origins[i].fn = UseOfMoved /\ origins[j].fn = UseOfMoved)
            => Root(origins[i]) # Root(origins[j])

\* C2: for the does-not-live-long-enough reports, no two buffered diagnostics
\* share the pair (root of the borrowed place, blame span); a call returns
\* early only when a diagnostic with the same pair is already buffered, so a
\* call that differs in the root or in the span is not suppressed; a
\* suppressed call buffers nothing and a reported one appends its diagnostic
\* and records its pair.
C2_Key(call) == <<Root(call), call.span>>
C2_BorrowTooShortOncePerPair ==
    /\ \A i, j \in DOMAIN origins :
          (i < j /\ origins[i].fn = DoesNotLiveLongEnough
                 /\ origins[j].fn = DoesNotLiveLongEnough)
              => C2_Key(origins[i]) # C2_Key(origins[j])
    /\ (last.fn = DoesNotLiveLongEnough /\ last.outcome = "suppressed")
          => \E i \in 1..(Len(origins)) :
                /\ origins[i].fn = DoesNotLiveLongEnough
                /\ C2_Key(origins[i]) = C2_Key(last)
    /\ (last.fn = DoesNotLiveLongEnough /\ last.outcome = "buffered")
          => /\ origins # <<>>
             /\ [origins[Len(origins)] EXCEPT !.outcome = "buffered"] = last
             /\ C2_Key(last) \in access_place_error_reported
    /\ \A i \in DOMAIN origins :
          origins[i].fn = DoesNotLiveLongEnough
              => C2_Key(origins[i]) \in access_place_error_reported
    /\ Len(errors_buffer) = Len(origins)

\* C2 witness: two diagnostics for borrows of the same root with different
\* blame spans are buffered, and a third call with an already recorded pair
\* has just been suppressed.
C2_Witness ==
    /\ last.fn = DoesNotLiveLongEnough /\ last.outcome = "suppressed"
    /\ Len(origins) = 2
    /\ origins[1].fn = DoesNotLiveLongEnough /\ origins[2].fn = DoesNotLiveLongEnough
    /\ Root(origins[1]) = Root(origins[2])
    /\ origins[1].span # origins[2].span

\* C3 (as claimed): whenever two buffered conflicting-borrow diagnostics come
\* from mirrored kind pairs (new k1 against issued k2, new k2 against issued
\* k1), they were built by the same constructor.
C3_MatrixSymmetric ==
    \A i, j \in DOMAIN origins :
        (/\ origins[i].fn = ConflictingBorrow /\ origins[j].fn = ConflictingBorrow
         /\ KindOf(origins[i].gen) = KindOf(origins[j].issued)
         /\ KindOf(origins[i].issued) = KindOf(origins[j].gen))
            => errors_buffer[i].ctor = errors_buffer[j].ctor

\* C3 (amended): mirrored kind pairs select the same constructor when both
\* or neither of the two borrows is Unique; when exactly one is Unique the
\* constructor is cannot_uniquely_borrow_by_one_closure if the new borrow is
\* the Unique one and cannot_reborrow_already_uniquely_borrowed if the
\* issued borrow is.
C3_ExactlyOneUnique(call) ==
    (KindOf(call.gen) = "Unique") # (KindOf(call.issued) = "Unique")
C3_MatrixSymmetricButUnique ==
    /\ \A i, j \in DOMAIN origins :
          (/\ origins[i].fn = ConflictingBorrow /\ origins[j].fn = ConflictingBorrow
           /\ KindOf(origins[i].gen) = KindOf(origins[j].issued)
           /\ KindOf(origins[i].issued) = KindOf(origins[j].gen)
           /\ ~C3_ExactlyOneUnique(origins[i]))
              => errors_buffer[i].ctor = errors_buffer[j].ctor
    /\ \A i \in DOMAIN origins :
          (origins[i].fn = ConflictingBorrow /\ C3_ExactlyOneUnique(origins[i]))
              => errors_buffer[i].ctor =
                    IF KindOf(origins[i].gen) = "Unique"
                    THEN "cannot_uniquely_borrow_by_one_closure"
                    ELSE "cannot_reborrow_already_uniquely_borrowed"

\* C3 witness: a shared borrow against an issued mutable one and a mutable
\* borrow against an issued shared one are both buffered.
C3_Witness ==
    /\ Len(origins) = 2
    /\ origins[1].fn = ConflictingBorrow /\ origins[2].fn = ConflictingBorrow
    /\ KindOf(origins[1].gen) = "Shared" /\ KindOf(origins[1].issued) = "Mut"
    /\ KindOf(origins[2].gen) = "Mut" /\ KindOf(origins[2].issued) = "Shared"

\* C4: every diagnostic buffered for a new mutable borrow against an issued
\* mutable borrow of an overlapping place is built by
\* cannot_mutably_borrow_multiply, whichever of the two places is the new
\* one, with the span of the new borrow as primary span and the span of the
\* issued borrow as its other span; each such call buffers one diagnostic.
C4_BorrowSpan(b) == args_or_use(retrieve_borrow_spans(borrow_set[b]))
C6_Moved(moi) == move_spans(move_paths[moves[moi].path].place, moves[moi].source)
C6_MoveSpan(moi) == args_or_use(C6_Moved(moi))
C6_AfterTexts == {"value used here after move", "value borrowed here after move"}
C6_Has(labels, span, text) ==
    \E k \in DOMAIN labels : labels[k] = <<span, text>>
C6_AfterMoveLabel(labels) ==
    (\E k \in DOMAIN labels : labels[k][1] = last.span /\ labels[k][2] \in C6_AfterTexts)
        <=> (\A k \in DOMAIN last.mois : C6_MoveSpan(last.mois[k]) # last.span)
C6_LoopMoveLabelsAsClaimed ==
    (last.fn = UseOfMoved /\ last.outcome = "buffered" /\ last.mois # <<>>)
        => LET labels == errors_buffer[Len(errors_buffer)].labels
           IN /\ \A k \in DOMAIN last.mois :
                    LET move_span == C6_MoveSpan(last.mois[k])
                    IN /\ C6_Has(labels, move_span,
                                 "value moved here in previous iteration of loop")
                             <=> (last.span = move_span)
                       /\ C6_Has(labels, move_span, "value moved here")
                             <=> (last.span # move_span)
              /\ C6_AfterMoveLabel(labels)

\* C6 (amended): as claimed, with the spans being the resolved ones (the
\* parameter list of the closure for a use or move that is a capture) and
\* with "value moved into closure here ..." in place of "value moved here ..."
\* for a move-out that is a capture by a closure.
C6_Into(moi) == IF for_closure(C6_Moved(moi)) THEN " into closure" ELSE ""
C6_LoopMoveLabels ==
    (last.fn = UseOfMoved /\ last.outcome = "buffered" /\ last.mois # <<>>)
        => LET labels == errors_buffer[Len(errors_buffer)].labels
           IN /\ \A k \in DOMAIN last.mois :
                    LET move_span == C6_MoveSpan(last.mois[k])
                        into == C6_Into(last.mois[k])
                    IN /\ C6_Has(labels, move_span,
                                 "value moved" \o into \o " here in previous iteration of loop")
                             <=> (last.span = move_span)
                       /\ C6_Has(labels, move_span, "value moved" \o into \o " here")
                             <=> (last.span # move_span)
              /\ C6_AfterMoveLabel(labels)

\* C6 witness: a use reached by two move-outs, one at the span of the use
\* and one elsewhere.
C6_Witness ==
    /\ last.fn = UseOfMoved /\ last.outcome = "buffered"
    /\ Len(last.mois) = 2
    /\ \E k \in DOMAIN last.mois : C6_MoveSpan(last.mois[k]) = last.span
    /\ \E k \in DOMAIN last.mois : C6_MoveSpan(last.mois[k]) # last.span

\* C7: describing a place never aborts: describe_place and
\* describe_place_with_options return a name or None for every place.
C7_DescribeNeverFails ==
    described.done => described.res.tag \in {"Some", "None"}

\* C8: the description of a place rooted at a named local is the name of
\* the root followed by one segment per projection, in order: ".<name>" for
\* a field (its name in the type it is projected from), "[<name>]" or "[..]"
\* for an index, "*" for a dereference.
C8_FieldName(ty, field) ==
    LET t == TyTable[ty]
    IN IF t.k = "TyAdt" THEN t.names[field + 1] ELSE ToString(field)
RECURSIVE C8_Segments(_, _)
C8_Segments(ty, elems) ==
    IF elems = <<>> THEN ""
    ELSE LET e == Head(elems)
             name == local_decls[e.local].name
         IN CASE e.k = "Field" ->
                     "." \o C8_FieldName(ty, e.field) \o C8_Segments(e.ty, Tail(elems))
              [] e.k = "Index" ->
                     "[" \o (IF name.some THEN name.v ELSE "..") \o "]"
                         \o C8_Segments(TyTable[ty].inner, Tail(elems))
              [] e.k = "ConstantIndex" -> "[..]" \o C8_Segments(TyTable[ty].inner, Tail(elems))
              [] OTHER -> "*" \o C8_Segments(TyTable[ty].inner, Tail(elems))
C8_InScope(place) ==
    /\ place.base.kind = "Local" /\ local_decls[place.base.local].name.some
    /\ \A k \in DOMAIN place.elems :
          /\ place.elems[k].k \in {"Field", "Index", "ConstantIndex", "Deref"}
          /\ TyTable[place_ty(elem_base(place, k - 1))].k \in
                {"TyAdt", "TyTuple", "TyRef", "TyBox", "TyRawPtr", "TyArray"}
C8_OneSegmentPerProjection ==
    (described.done /\ C8_InScope(place_arg))
        => described.res =
              DescOk(local_decls[place_arg.base.local].name.v
                     \o C8_Segments(place_arg.base.ty, place_arg.elems))

\* C9: the description of a closure-upvar field access (a field of the
\* closure environment, optionally dereferenced) is the name of the captured
\* variable, with "*" in front only when a by-value upvar is dereferenced.
C9_IsUpvarAccess(place) ==
    /\ is_upvar_field_projection(place).some
    /\ place.base.kind = "Local" /\ TyTable[place.base.ty].inner = "Clos"
C9_UpvarName(place) ==
    LET decl == upvar_decls[is_upvar_field_projection(place).v + 1]
    IN IF place.elems[Len(place.elems)].k = "Deref" /\ ~decl.by_ref
       THEN "*" \o decl.debug_name ELSE decl.debug_name
C9_UpvarDescribedByName ==
    (described.done /\ C9_IsUpvarAccess(place_arg))
        => described.res = DescOk(C9_UpvarName(place_arg))

\* C10: a downcast is ignorable in describe_place: a place with downcast
\* projections has a description whenever the place without them has one.
C10_HasDowncast(place) == \E k \in DOMAIN place.elems : place.elems[k].k = "Downcast"
C10_WithoutDowncasts(place) ==
    Place(place.base, SelectSeq(place.elems, LAMBDA e : e.k # "Downcast"))
C10_DowncastIgnorable ==
    (described.done /\ ~described.incl /\ C10_HasDowncast(place_arg))
        => (describe_place(C10_WithoutDowncasts(place_arg)).tag = "Some"
               => described.res.tag = "Some")

\* C11: reassigning a named, immutable, non-argument local that was declared
\* without initializer buffers one cannot_reassign_immutable diagnostic that
\* carries "first assignment to 'y'" at the span of the first assignment
\* exactly when that span differs from the span of the reassignment,
\* "cannot assign twice to immutable variable" at the reassignment, and
\* "consider changing this to 'mut y'" at the declaration exactly when the
\* binding can be made mutable.
C11_DeclaredLater(call) ==
    /\ call.fn = "report_illegal_reassignment"
    /\ call.place = call.err_place
    /\ reassigned_local(call.err_place).some
    /\ local_decls[call.place.base.local].name.some
    /\ local_decls[call.place.base.local].kind # "Arg"
    /\ is_user_variable[call.place.base.local].form = "Var"
    /\ ~is_user_variable[call.place.base.local].opt_match_place
C11_Labelled(labels, span, text) == \E k \in DOMAIN labels : labels[k] = <<span, text>>
C11_ReassignImmutable ==
    C11_DeclaredLater(last)
        => LET local == last.place.base.local
               y == local_decls[local].name.v
               err == errors_buffer[Len(errors_buffer)]
           IN /\ last.outcome = "buffered"
              /\ Len(errors_buffer) = Len(origins)
              /\ [origins[Len(origins)] EXCEPT !.outcome = "buffered"] = last
              /\ err.ctor = "cannot_reassign_immutable" /\ err.span = last.span
              /\ err.strs[1] = y
              /\ C11_Labelled(err.labels, last.assigned_span, "first assignment to '" \o y \o "'")
                    <=> (last.assigned_span # last.span)
              /\ C11_Labelled(err.labels, last.span, "cannot assign twice to immutable variable")
              /\ C11_Labelled(err.labels, local_decls[local].span,
                              "consider changing this to 'mut " \o y \o "'")
                    <=> can_be_made_mutable(local)
              /\ Len(err.labels) = 1 + (IF last.assigned_span # last.span THEN 1 ELSE 0)
                                     + (IF can_be_made_mutable(local) THEN 1 ELSE 0)

\* C11 witness: the second assignment to `a` (declared by `let a;`) at a
\* span other than the first has been reported, with all three labels.
C11_Witness ==
    /\ C11_DeclaredLater(last) /\ last.outcome = "buffered"
    /\ last.place = a_place /\ last.assigned_span # last.span
    /\ Len(errors_buffer[Len(errors_buffer)].labels) = 3

\* C12: move_spans(place, location) is ClosureUse(parameter-list span of the
\* closure, span of the captured variable at the position of the first
\* operand that moves or copies the place) exactly when the statement at the
\* location assigns a closure aggregate with such an operand; otherwise,
\* also at the terminator of the block, it is OtherUse of the span of the
\* statement or terminator at the location.
C12_Statements(location) == basic_blocks[location.block].statements
C12_Captures(place, location) ==
    IF location.statement_index \in DOMAIN C12_Statements(location)
          /\ C12_Statements(location)[location.statement_index].kind = "Assign"
          /\ C12_Statements(location)[location.statement_index].rvalue.k = "Closure"
    THEN { i \in DOMAIN C12_Statements(location)[location.statement_index].rvalue.operands :
             LET operand == C12_Statements(location)[location.statement_index].rvalue.operands[i]
             IN operand.op \in {"Move", "Copy"} /\ operand.place = place }
    ELSE {}
C12_First(S) == CHOOSE i \in S : \A j \in S : i <= j
C12_MoveSpans ==
    resolved.fn = "move_spans"
        => LET location == resolved.location
               captures == C12_Captures(resolved.place, location)
           IN IF captures # {}
              THEN LET cl == closures[C12_Statements(location)[location.statement_index].rvalue.def]
                   IN resolved.res = [closure |-> TRUE, args_span |-> cl.args_span,
                                      var_span |-> cl.freevars[C12_First(captures)].span]
              ELSE LET span == IF location.statement_index \in DOMAIN C12_Statements(location)
                               THEN C12_Statements(location)[location.statement_index].span
                               ELSE basic_blocks[location.block].terminator.span
                   IN resolved.res = [closure |-> FALSE, args_span |-> span, var_span |-> span]

\* C12 witness: a ClosureUse for a place that a closure captures by copy as
\* its first operand.
C12_Witness ==
    /\ resolved.fn = "move_spans" /\ resolved.res.closure
    /\ resolved.place = LocalPlace(6) /\ resolved.location = Location(2, 3)
    /\ resolved.res.var_span = 38

\* C13 (as claimed): borrow_spans(use_span, location) is a ClosureUse when
\* the statement at the location assigns to a temporary and some later
\* statement of the block is a closure construction that captures that
\* temporary, unprojected, by move or copy; otherwise it is
\* OtherUse(use_span).
C13_Statements == basic_blocks[resolved.location.block].statements
C13_Temp ==
    IF resolved.location.statement_index \in DOMAIN C13_Statements
          /\ C13_Statements[resolved.location.statement_index].kind = "Assign"
          /\ C13_Statements[resolved.location.statement_index].place.base.kind = "Local"
          /\ local_decls[C13_Statements[resolved.location.statement_index].place.base.local].kind
                = "Temp"
    THEN {C13_Statements[resolved.location.statement_index].place.base.local}
    ELSE {}
C13_IsClosure(j) ==
    C13_Statements[j].kind = "Assign" /\ C13_Statements[j].rvalue.k = "Closure"
C13_Captures(j, local) ==
    { i \in DOMAIN C13_Statements[j].rvalue.operands :
        /\ i \in DOMAIN closures[C13_Statements[j].rvalue.def].freevars
        /\ C13_Statements[j].rvalue.operands[i].op \in {"Move", "Copy"}
        /\ C13_Statements[j].rvalue.operands[i].place = Place(LocalBase(local), <<>>) }
C13_Later == { j \in DOMAIN C13_Statements : j > resolved.location.statement_index }
C13_OtherUse == [closure |-> FALSE, args_span |-> resolved.use_span,
                 var_span |-> resolved.use_span]
C13_AnyLaterClosure ==
    resolved.fn = "borrow_spans"
        => IF \E local \in C13_Temp : \E j \in C13_Later :
                 C13_IsClosure(j) /\ C13_Captures(j, local) # {}
           THEN resolved.res.closure
           ELSE resolved.res = C13_OtherUse

\* C13 (amended): the later statements are scanned in order up to and
\* including the first one that is a closure construction or whose span is
\* not use_span; the result is the ClosureUse of that statement (the
\* closure's parameter-list span and the span of the first captured variable
\* whose operand is the temporary) when it is a closure construction that
\* captures the temporary, and OtherUse(use_span) in every other case.
C13_Deciding ==
    { j \in C13_Later :
        /\ C13_IsClosure(j) \/ C13_Statements[j].span # resolved.use_span
        /\ \A k \in C13_Later :
              k < j => ~C13_IsClosure(k) /\ C13_Statements[k].span = resolved.use_span }
C13_First(S) == CHOOSE i \in S : \A j \in S : i <= j
C13_BorrowSpans ==
    resolved.fn = "borrow_spans"
        => IF \E local \in C13_Temp : \E j \in C13_Deciding :
                 C13_IsClosure(j) /\ C13_Captures(j, local) # {}
           THEN \E local \in C13_Temp : \E j \in C13_Deciding :
                   LET cl == closures[C13_Statements[j].rvalue.def]
                   IN resolved.res =
                         [closure |-> TRUE, args_span |-> cl.args_span,
                          var_span |-> cl.freevars[C13_First(C13_Captures(j, local))].span]
           ELSE resolved.res = C13_OtherUse

\* C13 witness: the temporary assigned at the location is captured by the
\* closure built two statements later, the statement in between having the
\* span use_span.
C13_Witness ==
    /\ resolved.fn = "borrow_spans" /\ resolved.res.closure
    /\ resolved.location = Location(3, 1) /\ resolved.use_span = 61
    /\ resolved.res.args_span = 37 /\ resolved.res.var_span = 38

\* C14: a call of move_spans, borrow_spans or retrieve_borrow_spans leaves
\* the diagnostics buffer and both suppression sets unchanged, and whether
\* a report of conflicting borrows buffers its diagnostic is what it would
\* be had the resolver returned OtherUse of the statement's span for both
\* borrows.
C14_StatementSpan(b) == source_info_span(borrow_set[b].reserve_location)
C14_BuffersWithOtherUse(call) ==
    /\ describe_place(call.place).tag # "Bug"
    /\ \/ C14_StatementSpan(call.gen) = C14_StatementSpan(call.issued)
       \/ describe_place(borrow_set[call.issued].borrowed_place).tag # "Bug"
C14_OutcomeIndependent ==
    last.fn = ConflictingBorrow
        => ((last.outcome = "buffered") <=> C14_BuffersWithOtherUse(last))
C14_ResolverHasNoEffect ==
    [][/\ resolved' # resolved
            => UNCHANGED <<errors_buffer, moved_error_reported, access_place_error_reported>>
       /\ C14_OutcomeIndependent']_vars

\* ---------------------------------------------------------------- claim C15
\* C15: errors_buffer is append-only and ordered: every invocation of a
\* report function either appends exactly one diagnostic at the end of
\* errors_buffer or, when one of the two suppression sets already holds
\* its key, appends none; no invocation removes, replaces or reorders the
\* diagnostics buffered before it.
C15_Kept == SubSeq(errors_buffer', 1, Len(errors_buffer)) = errors_buffer

C15_AppendsOne ==
    /\ last'.outcome = "buffered"
    /\ Len(errors_buffer') = Len(errors_buffer) + 1
    /\ C15_Kept

C15_AppendsNone ==
    /\ last'.outcome = "suppressed"
    /\ errors_buffer' = errors_buffer

C15_AppendOnly == [][C15_AppendsOne \/ C15_AppendsNone]_vars

\* ---------------------------------------------------------------- claim C17
\* C17: when the use of the new borrow is a closure capture (the resolver
\* answers ClosureUse for the borrowing statement), the conflicting-borrow
\* diagnostic has the span of the closure (its parameter list) as its
\* primary span and carries a label at the span of the captured variable's
\* first use inside the closure.
C17_NewBorrowSpans(call) ==
    borrow_spans(source_info_span(borrow_set[call.gen].reserve_location),
                 borrow_set[call.gen].reserve_location)

C17_Attributed(err, bspans) ==
    /\ err.span = args_or_use(bspans)
    /\ \E l \in DOMAIN err.labels : err.labels[l][1] = var_or_use(bspans)

C17_ClosureAttribution ==
    \A i \in DOMAIN errors_buffer :
        (origins[i].fn = ConflictingBorrow /\ for_closure(C17_NewBorrowSpans(origins[i])))
            => C17_Attributed(errors_buffer[i], C17_NewBorrowSpans(origins[i]))

C17_Witness ==
    \E i \in DOMAIN errors_buffer :
        /\ origins[i].fn = ConflictingBorrow
        /\ for_closure(C17_NewBorrowSpans(origins[i]))
        /\ args_or_use(C17_NewBorrowSpans(origins[i])) # var_or_use(C17_NewBorrowSpans(origins[i]))
        /\ args_or_use(C17_NewBorrowSpans(origins[i])) = 37

\* ---------------------------------------------------------------- claim C18
\* C18: for an ancestor path and a descendant path, a move of either while
\* the other is borrowed is reported as a move-while-borrowed diagnostic
\* whose label 'move out of ... occurs here' names the moved path and whose
\* label 'borrow of ... occurs here' names the borrowed path.
C18_IsPrefix(p, q) ==
    /\ p.base = q.base
    /\ Len(p.elems) < Len(q.elems)
    /\ SubSeq(q.elems, 1, Len(p.elems)) = p.elems

C18_AncestorPair(p, q) == C18_IsPrefix(p, q) \/ C18_IsPrefix(q, p)

C18_Path(place) ==
    quoted(local_decls[place.base.local].name.v
           \o C8_Segments(place.base.ty, place.elems))

C18_HasLabel(err, message) ==
    \E l \in DOMAIN err.labels : err.labels[l][2] = message

C18_Names(err, moved, borrowed) ==
    /\ err.ctor = "cannot_move_when_borrowed"
    /\ C18_HasLabel(err, "move out of " \o C18_Path(moved) \o " occurs here")
    /\ C18_HasLabel(err, "borrow of " \o C18_Path(borrowed) \o " occurs here")

C18_AncestorSymmetry ==
    (/\ last.fn = "report_move_out_while_borrowed"
     /\ C8_InScope(last.place)
     /\ C8_InScope(borrow_set[last.issued].borrowed_place)
     /\ C18_AncestorPair(last.place, borrow_set[last.issued].borrowed_place))
        => /\ last.outcome = "buffered"
           /\ C18_Names(errors_buffer[Len(errors_buffer)], last.place,
                        borrow_set[last.issued].borrowed_place)

\* ---------------------------------------------------------------- claim C19
\* C19: a use of a named local x of a non-closure type T after x has been
\* moved yields one use-of-moved diagnostic that names x and carries the
\* note 'move occurs because 'x' has type 'T', which does not implement the
\* 'Copy' trait'.
C19_MovedLocal(call) ==
    /\ call.fn = UseOfMoved
    /\ call.mois # <<>>
    /\ call.place.base.kind = "Local"
    /\ has_no_projection(call.place)
    /\ local_decls[call.place.base.local].name.some
    /\ TyTable[call.place.base.ty].k # "TyClosure"
    /\ move_paths[moves[call.mois[1]].path].place = call.place

C19_Note(place) ==
    "move occurs because '" \o local_decls[place.base.local].name.v \o "' has type '"
        \o place.base.ty \o "', which does not implement the 'Copy' trait"

C19_Reported(err, place) ==
    /\ err.ctor = "cannot_act_on_moved_value"
    /\ err.strs[3] = local_decls[place.base.local].name.v
    /\ err.notes = <<C19_Note(place)>>

C19_UseAfterMove ==
    /\ C19_MovedLocal(last) =>
          /\ last.outcome = "buffered"
          /\ origins[Len(origins)] = [last EXCEPT !.outcome = ""]
    /\ \A i \in DOMAIN errors_buffer :
          C19_MovedLocal(origins[i]) => C19_Reported(errors_buffer[i], origins[i].place)

C19_Witness ==
    \E i \in DOMAIN errors_buffer :
        /\ C19_MovedLocal(origins[i])
        /\ origins[i].place = v_place
        /\ errors_buffer[i].notes # <<>>

\* ---------------------------------------------------------------- claim C20
\* C20: the forward may-reach flow analysis terminates on every finite
\* control-flow graph, loops and conditional merges included: the worklist
\* eventually becomes empty and stays empty, and then the state at the
\* entry of each block is the union of the exit states of its predecessors.
C20_FixedPoint ==
    \A b \in Blocks :
        on_entry[b] = UNION { flow_exit(p, on_entry[p]) : p \in predecessors(b) }

C20_Terminates == <>[](worklist = {} /\ C20_FixedPoint)

C20_Witness ==
    /\ worklist = {}
    /\ successors = (1 :> {2, 3} @@ 2 :> {4} @@ 3 :> {4} @@ 4 :> {2})
    /\ reinit_block = 3
    /\ on_entry[4] = {1, 2, 3}

\* ---------------------------------------------------------------- claim C21
\* C21: two mutable borrows of paths that differ in a constant field index
\* under the same parent (s.x and s.y) never produce a conflict, while a
\* borrow of either one conflicts with an access to their common ancestor.
C21_Parent(p) == Place(p.base, SubSeq(p.elems, 1, Len(p.elems) - 1))

C21_Siblings(p, q) ==
    /\ p.elems # <<>> /\ q.elems # <<>>
    /\ C21_Parent(p) = C21_Parent(q)
    /\ p.elems[Len(p.elems)].k = "Field" /\ q.elems[Len(q.elems)].k = "Field"
    /\ p.elems[Len(p.elems)].field # q.elems[Len(q.elems)].field

C21_MutPlaces == { borrow_set[b].borrowed_place : b \in { c \in DOMAIN borrow_set : KindOf(c) = "Mut" } }

C21_SiblingDisjointness ==
    /\ last.fn = ConflictingBorrow
          => ~C21_Siblings(last.place, borrow_set[last.issued].borrowed_place)
    /\ \A p \in C21_MutPlaces, q \in C21_MutPlaces :
          C21_Siblings(p, q)
             => /\ ~places_conflict(p, q)
                /\ places_conflict(p, C21_Parent(p))
                /\ places_conflict(q, C21_Parent(q))
                /\ places_conflict(p, Place(p.base, <<>>))

C21_Witness ==
    /\ last.fn = ConflictingBorrow
    /\ last.place = a_place
    /\ borrow_set[last.issued].borrowed_place = a_b
    /\ C21_Siblings(a_b, a_n)
    /\ {a_b, a_n} \subseteq C21_MutPlaces

\* ---------------------------------------------------------------- claim C22
\* C22: root_local returns Some(x) exactly when the root of the place is
\* the local x, whatever the number of projections, and None when the root
\* is a static or a promoted constant; its loop terminates for every place.
C22_Result ==
    IF place_arg.base.kind = "Local" THEN Some(place_arg.base.local) ELSE None

C22_RootLocal ==
    /\ []((computed.fn = "root_local" /\ computed.done) => computed.res = C22_Result)
    /\ ((computed.fn = "root_local") ~> (computed.fn = "root_local" /\ computed.done))

C22_Witness ==
    /\ computed.fn = "root_local" /\ computed.done
    /\ Len(place_arg.elems) >= 2
    /\ computed.res = Some(2)

\* ---------------------------------------------------------------- claim C23
\* C23: is_unsafe_place returns true if and only if some dereference along
\* the path of the place is applied to a value of raw-pointer type; for
\* every place without such a dereference it returns false.
C23_RawDeref(place) ==
    \E k \in DOMAIN place.elems :
        /\ place.elems[k].k = "Deref"
        /\ TyTable[place_ty(elem_base(place, k - 1))].k = "TyRawPtr"

C23_StaticMut(place) ==
    place.base.kind = "Static" /\ is_static(place.base.name) = Some("MutMutable")

RECURSIVE C25_Closing(_, _, _)
C25_Closing(input, i, q) ==
    IF i > Len(input) THEN 0
    ELSE IF input[i] = Backslash THEN C25_Closing(input, i + 2, q)
    ELSE IF input[i] = q THEN i
    ELSE C25_Closing(input, i + 1, q)

C25_WholeLiteral ==
    (computed.fn = "get_string" /\ C25_Closing(computed.input, 1, computed.string_start) > 0)
        => /\ computed.res.s =
                <<computed.string_start>>
                \o SubSeq(computed.input, 1,
                          C25_Closing(computed.input, 1, computed.string_start))
           /\ computed.res.iter =
                SubSeq(computed.input,
                       C25_Closing(computed.input, 1, computed.string_start) + 1,
                       Len(computed.input))

\* ---------------------------------------------------------------- claim C26
\* C26: the comparison built by cs_partial_cmp is lexicographic over the
\* fields in declaration order: it returns the result of the first field
\* whose partial_cmp is not Some(Equal), the result of the last field when
\* every earlier field compares Some(Equal), and Some(Equal) for a value
\* without fields.
C26_Unequal(results) == { i \in DOMAIN results : results[i] # "Equal" }

C26_First(results) ==
    CHOOSE i \in C26_Unequal(results) : \A j \in C26_Unequal(results) : i <= j

C26_Lexicographic ==
    computed.fn = "cs_partial_cmp"
        => computed.res =
              IF computed.results = <<>> THEN "Equal"
              ELSE IF C26_Unequal(computed.results) # {}
                   THEN computed.results[C26_First(computed.results)]
                   ELSE computed.results[Len(computed.results)]

C26_Witness ==
    /\ computed.fn = "cs_partial_cmp"
    /\ computed.results = <<"Equal", "None", "Less">>
    /\ computed.res = "None"

\* ---------------------------------------------------------------- claim C27
\* C27: the reassignment diagnostic refers to the root local (description
\* of err_place, first-assignment span the declaration span of the local)
\* exactly when err_place is an unprojected local initialized at its
\* binding: every binding form except a `let PATTERN;` variable without a
\* match place, a cleared binding form and a non-user variable; otherwise
\* it describes the assigned place and uses the recorded earlier
\* assignment span.  For an argument the message is 'cannot assign to
\* immutable argument' and no 'first assignment' label is added.
C27_Reassign(call) == call.fn = "report_illegal_reassignment"

C27_UnprojectedLocal(call) ==
    call.err_place.base.kind = "Local" /\ call.err_place.elems = <<>>

C27_InitializedAtBinding(call) ==
    /\ C27_UnprojectedLocal(call)
    /\ is_user_variable[call.err_place.base.local].form \notin {"None", "Clear"}
    /\ ~(/\ is_user_variable[call.err_place.base.local].form = "Var"
          /\ ~is_user_variable[call.err_place.base.local].opt_match_place)

C27_FromArg(call) ==
    C27_UnprojectedLocal(call) /\ local_decls[call.err_place.base.local].kind = "Arg"

C27_Described(call) ==
    describe_place(IF C27_InitializedAtBinding(call) THEN call.err_place ELSE call.place)

C27_FirstSpan(call) ==
    IF C27_InitializedAtBinding(call) THEN local_decls[call.err_place.base.local].span
    ELSE call.assigned_span

C27_First(call) ==
    <<C27_FirstSpan(call), "first assignment to " \o quoted_or_value(C27_Described(call))>>

C27_Consider(call) ==
    <<local_decls[call.err_place.base.local].span,
      "consider changing this to 'mut " \o local_decls[call.err_place.base.local].name.v \o "'">>

C27_AsClaimed(err, call) ==
    /\ err.strs[1] = unwrap_or(C27_Described(call), "_")
    /\ IF C27_FromArg(call)
       THEN /\ err.labels[Len(err.labels)] = <<call.span, "cannot assign to immutable argument">>
            /\ \A l \in 1..(Len(err.labels) - 1) : err.labels[l] = C27_Consider(call)
       ELSE /\ err.labels[Len(err.labels)] =
                   <<call.span, "cannot assign twice to immutable variable">>
            /\ (call.span # C27_FirstSpan(call)) => err.labels[1] = C27_First(call)

C27_RefersToRootLocal ==
    \A i \in DOMAIN errors_buffer :
        C27_Reassign(origins[i]) => C27_AsClaimed(errors_buffer[i], origins[i])

C27_Witness ==
    \E i \in DOMAIN errors_buffer, j \in DOMAIN errors_buffer :
        /\ C27_Reassign(origins[i]) /\ C27_FromArg(origins[i])
        /\ C27_InitializedAtBinding(origins[i])
        /\ C27_Reassign(origins[j]) /\ ~C27_InitializedAtBinding(origins[j])
        /\ C27_UnprojectedLocal(origins[j])
        /\ origins[j].span # origins[j].assigned_span

\* ------------------------------------------------------------------- C24
\* The arguments whose value has reached each local after the first k
\* visited statements and terminators, through moves, copies and call
\* arguments.
RECURSIVE C24_Received(_)
C24_Received(k) ==
    IF k = 0
    THEN [l \in 1..5 |-> IF l \in DOMAIN args THEN {l} ELSE {}]
    ELSE LET step(f, node) ==
                 [l \in 1..5 |->
                     IF node.kind \in {"Assign", "Call"} /\ l = node.lhs
                     THEN f[l] \cup UNION { f[src] : src \in
                              { node.sources[i] : i \in DOMAIN node.sources } \ {0} }
                     ELSE f[l]]
         IN step(C24_Received(k - 1), visits[k].node)

C24_Converges(arg, k) ==
    /\ visits[k].node.kind \in {"Assign", "Call"}
    /\ arg \in C24_Received(k)[visits[k].node.lhs]
    /\ ~is_generic(cursor.body.local_decls[visits[k].node.lhs])

\* C24: the convergence point recorded for a generic argument is the
\* location of the first visited assignment or call whose destination has
\* received the argument's value and has a non-generic type; while no such
\* statement or terminator was visited the argument has no point.
C24_FirstConcreteDestination ==
    cursor.at # "idle" =>
        \A arg \in DOMAIN args :
            LET hits == { k \in DOMAIN visits : C24_Converges(arg, k) }
            IN IF hits = {}
               THEN args[arg].convergence_point = None
               ELSE \E k \in hits :
                        /\ \A j \in hits : k <= j
                        /\ args[arg].convergence_point = Some(visits[k].location)

\* ------------------------------------------------------------------- C28
C28_Recorded(info) ==
    /\ info.convergence_point.some <=> info.converged_type.some
    /\ info.converged_type.some => ~is_generic(info.converged_type.v)

\* C28: once an argument has a convergence point its point and type never
\* change; the point is set exactly when the type is, and the type is not
\* generic.
C28_SetOnce ==
    /\ [](\A arg \in DOMAIN args : C28_Recorded(args[arg]))
    /\ [][\A arg \in DOMAIN args :
             args[arg].convergence_point.some => args'[arg] = args[arg]]_vars

\* ------------------------------------------------------------------- C29
C29_Converged == \A arg \in DOMAIN args : args[arg].convergence_point # None

\* C29: once every generic argument has converged no statement or
\* terminator is processed any more (none at all in a body without generic
\* arguments), and no location is processed twice.
C29_StopsWhenConverged ==
    /\ [](\A i, j \in DOMAIN visits :
             visits[i].location = visits[j].location => i = j)
    /\ [][cursor.at # "idle" /\ C29_Converged =>
             /\ visits' = visits
             /\ args' = args
             /\ arg_flow' = arg_flow
             /\ visited' = visited]_vars

\* Two arguments have converged, the last one at a statement, and a later
\* block was offered to the visitor and left alone.
C29_Witness ==
    /\ cursor.at = "body"
    /\ Cardinality(DOMAIN args) = 2
    /\ C29_Converged
    /\ visits # <<>>
    /\ visits[Len(visits)].node.kind = "Assign"
    /\ cursor.blocks > Cardinality(visited)

\* ------------------------------------------------------------------- C30
C30_Uninitialized(call) == call.fn = UseOfMoved /\ call.mois = <<>>
C30_TooShort(call) == call.fn = DoesNotLiveLongEnough

C30_Step(call) ==
    /\ moved_error_reported \subseteq moved_error_reported'
    /\ access_place_error_reported \subseteq access_place_error_reported'
    /\ call.outcome = "suppressed" =>
          /\ C30_Uninitialized(call) \/ C30_TooShort(call)
          /\ UNCHANGED <<moved_error_reported, access_place_error_reported, errors_buffer>>
    /\ C30_Uninitialized(call) =>
          /\ access_place_error_reported' = access_place_error_reported
          /\ moved_error_reported' = moved_error_reported \cup {Root(call)}
          /\ call.outcome = "suppressed" <=> Root(call) \in moved_error_reported
    /\ C30_TooShort(call) =>
          /\ moved_error_reported' = moved_error_reported
          /\ access_place_error_reported' =
                 access_place_error_reported \cup {<<Root(call), call.span>>}
          /\ call.outcome = "suppressed" <=>
                 <<Root(call), call.span>> \in access_place_error_reported
    /\ ~C30_Uninitialized(call) /\ ~C30_TooShort(call) =>
          UNCHANGED <<moved_error_reported, access_place_error_reported>>

\* C30: the two suppression sets only grow; a report of a use of an
\* uninitialized value that is not suppressed adds the root place to
\* moved_error_reported, one of a borrow that does not live long enough adds
\* (root place, borrow span) to access_place_error_reported, a suppressed
\* call changes neither set nor the buffer, and every other report leaves
\* both sets as they are and is never suppressed.
C30_OwnSetOnly == [][C30_Step(last')]_vars

\* A set is filled, and the last call, another report, was buffered.
C30_Witness ==
    /\ moved_error_reported # {} \/ access_place_error_reported # {}
    /\ Len(errors_buffer) = 2
    /\ last.fn \notin {UseOfMoved, DoesNotLiveLongEnough}
    /\ last.outcome = "buffered"

====
